---- MODULE Spec2Model ----
(***************************************************************************)
(* Shoreline renderer: the viewer (RENDER_VIEW) supervising one renderer   *)
(* child (SCENE) over three pipes and one shared-memory segment.           *)
(*                                                                         *)
(* Twelve specifications share the variables:                              *)
(*   Spec       the viewer driving a renderer child (tile protocol)        *)
(*   GridSpec   the tile grid loop of start_render as a function of RES    *)
(*   LoopSpec   the renderer's CLI loop {render, update} under a script    *)
(*   LiveSpec   one render from start_render on, fairly scheduled          *)
(*   ServeSpec  the CLI loop with a script that also feeds tile requests   *)
(*   SnapSpec   LiveSpec's viewer with store/toggle snapshot and paintGL   *)
(*   WidgetSpec the parameter widgets under setValue and user edits        *)
(*   SampleSpec the primary-ray sample offsets of render_tile              *)
(*   MisSpec    one call of BRDF::mis_sample                               *)
(*   TreeSpec   TREE::build and TREE::embree_geometry                      *)
(*   GeomSpec   the CLI loop under edits of the scene content (shader      *)
(*              table, geometry and its shader-index tables)               *)
(*   SlotSpec   the shared-memory cells of the worker slots in a render    *)
(***************************************************************************)
EXTENDS Integers, Sequences, FiniteSets, TLC

\* ------------------------------------------------------------------ bounds
MaxXRes    == 2
MaxYRes    == 1
MaxTres    == 1
MaxThreads == 2
MaxSamples == 2
MaxStarts  == 2
GridMaxRes == 5
GridMaxTres == 4
MaxRenders == 3
LoopMaxTres == 2
MaxWidgetValue == 3
MaxSeed == 1
SampMaxRes == 2
SampMaxYRes == 2
SampMaxTres == 2
RzMax == 2
TMax == 2
MaxLevels == 10

\* worker slots: the image, tile, thread and sample counts followed
SlotMaxXRes    == 2
SlotMaxYRes    == 2
SlotMaxTres    == 2
SlotMaxThreads == 2
SlotMaxSamples == 1

\* --------------------------------------------------------- program constants
PackedMax  == 255
CellBytes  == 4
\* int imax = 1000 of PARAMETER_FLOAT's slider
SliderMax  == 1000
\* const uint32_t p_hash_bits = 6
p_hash_bits == 6
\* width of the sampling words: uint32_t in the source, kept to 16 bits here
\* so that the products of the generator stay within the integers
WordBits   == 16

\* ------------------------------------------------- parameters of the inputs
\* a float descriptor with min 0.0 and max 2.0, in units of 0.001
FloatMax   == 2000
\* spacing of the float values and slider positions tried
FloatStep  == 333
SliderStep == 125
\* pdf values are counted in units of 1/(RzMax*TMax).  SunPdf stands for
\* 1.0F / m_sun_h (about 2.3e4) and ReflectPdf for the mirror's 1e6: both
\* are scaled down, keeping every diffuse pdf < SunPdf < ReflectPdf
SunPdf     == 40
ReflectPdf == 100
\* the float that is not a number
NaN        == -1

\* `levels` is tried in tenths (0.0 .. MaxLevels/10), leaf counts are kept in
\* sixteenths, branch ratios in quarters and branch_ratio_variance in halves
LcUnit     == 16
BrDen      == 4
VarDen     == 2

Min(a, b) == IF a < b THEN a ELSE b

\* ------------------------------------------------------------ wire records
\* RES::tile_count
tile_count(res) ==
    ((res.xres + res.tres - 1) \div res.tres) * ((res.yres + res.tres - 1) \div res.tres)

\* RES::shm_size, in bytes
shm_size(res) == res.nthreads * res.tres * res.tres * CellBytes

\* default-constructed RES and TILE
RES0  == [xres |-> 0, yres |-> 0, tres |-> 0, nsamples |-> 0, nthreads |-> 0]
TILE0 == [xoff |-> 0, yoff |-> 0, xsize |-> 0, ysize |-> 0, sidx |-> 0, tid |-> 0]

\* GridLoop with the last row and column left unclipped
RECURSIVE GridLoop_noclip(_, _, _, _)
GridLoop_noclip(res, yoff, xoff, q) ==
    IF yoff >= res.yres THEN q
    ELSE IF xoff >= res.xres THEN GridLoop_noclip(res, yoff + res.tres, 0, q)
    ELSE GridLoop_noclip(res, yoff, xoff + res.tres,
                  Append(q, [xoff  |-> xoff,
                             yoff  |-> yoff,
                             xsize |-> res.tres,
                             ysize |-> res.tres,
                             sidx  |-> 0,
                             tid   |-> 0]))

\* The nested loops of start_render that fill m_tiles for the first sample.
RECURSIVE GridLoop(_, _, _, _)
GridLoop(res, yoff, xoff, q) ==
    IF yoff >= res.yres THEN q
    ELSE IF xoff >= res.xres THEN GridLoop(res, yoff + res.tres, 0, q)
    ELSE GridLoop(res, yoff, xoff + res.tres,
                  Append(q, [xoff  |-> xoff,
                             yoff  |-> yoff,
                             xsize |-> Min(res.xres - xoff, res.tres),
                             ysize |-> Min(res.yres - yoff, res.tres),
                             sidx  |-> 0,
                             tid   |-> 0]))

TileGrid(res) == GridLoop(res, 0, 0, << >>)

\* ---------------------------------------------------------------- rasters
\* RASTER<T>: width, height and a linear std::vector of width*height cells
RASTER0 == [width |-> 0, height |-> 0, data |-> << >>]

\* RASTER::resize: when a dimension changes the cells are assigned T()
Raster_resize(r, w, h) ==
    IF w # r.width \/ h # r.height
    THEN [width |-> w, height |-> h, data |-> [i \in 1..(w * h) |-> 0]]
    ELSE r

\* RASTER::empty
Raster_empty(r) == Len(r.data) = 0

\* ------------------------------------------------------------ scene values
ParamKeys == {"res", "tres", "nthreads", "samples"}

ParamValues(name) ==
    CASE name = "res"      -> (1..MaxXRes) \X (1..MaxYRes)
      [] name = "tres"     -> 1..MaxTres
      [] name = "nthreads" -> 1..MaxThreads
      [] name = "samples"  -> 1..MaxSamples

\* the defaults map MAIN_WINDOW collects from the published descriptors
Defaults ==
    [k \in ParamKeys |->
        CASE k = "res"      -> <<MaxXRes, MaxYRes>>
          [] k = "tres"     -> 1
          [] k = "nthreads" -> MaxThreads
          [] k = "samples"  -> MaxSamples]

NullScene == [k \in {} |-> 0]

\* nlohmann::json operator[] assignment on an object
JsonSet(scene, name, value) ==
    [k \in (DOMAIN scene) \cup {name} |-> IF k = name THEN value ELSE scene[k]]

\* ---------------------------------------------------------------- variables
VARIABLES
    \* RENDER_VIEW
    v_pc,               \* "idle" | "wait_res" (blocked in start_render) | "killed"
    last_op,            \* the handler that ran last, with its outcome
    m_child, m_outjson_fd, m_intile_fd, m_outtile_fd, m_intile_notifier,
    m_shm_fd, m_shm_data,
    m_scene, m_res, m_tiles, m_tiles_complete,
    m_image, m_image_dirty, m_snapshot, m_snapshot_dirty, m_snapshot_active,
    snap_hist,          \* progress of a store_snapshot, toggle, toggle sequence
    sent_log,           \* the TILE records written to m_outtile_fd this render
    done_set,           \* the (xoff, yoff, sidx) of the completions handled
    \* operating system
    forks,              \* number of successful fork() calls
    alive,              \* pids of the children that are running
    jsonpipe, reqpipe, cmplpipe,
    seg_size, seg_data, \* the named shared-memory segment (bytes, cells)
    \* SCENE (the renderer child); m_shared_data is 0 (nullptr), -1 (MAP_FAILED)
    \* or the number of the render() call that made the mapping
    r_pc, json_scene, m_shm_size, m_shared_data, map_len, r_res, pixelcolors,
    w_pc, w_tile, w_local, rval, renders, tcomplete,
    \* SCENE, geometry: the acceleration scene (live is FALSE for nullptr),
    \* the shader table and its name list, the geometry-id and instance-id
    \* shader-index tables, and the steps of the last render() in their order
    rtc_scene, shaders, shader_names, shader_index, inst_shader_index, r_log,
    \* tile grid function
    g_pc, g_res, g_tiles,
    \* parameter widgets: value and signalsBlocked() of every Qt object, the
    \* PARAMETER::valueChanged emissions of the last call, and that call
    p_value, p_blocked, p_emitted, p_last,
    \* sample positions: the seed, and for each of two renders its RES, the
    \* tile request it served and the primary-ray offsets it used
    s_seed, s_res, s_tile, s_offs,
    \* shading: the inputs of one BRDF::mis_sample call and what it computed
    mis_in, mis_out,
    \* tree generator: the parameters, the position in build(), the pending
    \* calls of construct, the nodes allocated, the number of construct calls
    \* made and the counters of embree_geometry
    t_in, t_pc, t_stack, t_nodes, t_calls, t_geom,
    \* worker slots of shared memory: the RES of a render, the viewer's queue,
    \* the requests and the completions in flight, and the cells the renderer
    \* wrote and the viewer read for the completion handled last
    c_res, c_tiles, c_req, c_done, c_written, c_read

viewVars == <<v_pc, last_op, m_child, m_outjson_fd, m_intile_fd, m_outtile_fd,
              m_intile_notifier, m_shm_fd, m_shm_data, m_scene, m_res, m_tiles,
              m_tiles_complete, m_image, m_image_dirty, m_snapshot,
              m_snapshot_dirty, m_snapshot_active, snap_hist, sent_log, done_set>>
osVars   == <<forks, alive, jsonpipe, reqpipe, cmplpipe, seg_size, seg_data>>
geomVars == <<rtc_scene, shaders, shader_names, shader_index, inst_shader_index, r_log>>
rendVars == <<r_pc, json_scene, m_shm_size, m_shared_data, map_len, r_res, pixelcolors,
              w_pc, w_tile, w_local, rval, renders, tcomplete, geomVars>>
gridVars == <<g_pc, g_res, g_tiles>>
paramVars == <<p_value, p_blocked, p_emitted, p_last>>
sampVars == <<s_seed, s_res, s_tile, s_offs>>
misVars  == <<mis_in, mis_out>>
\* the variables of the renderer's library functions
treeVars == <<t_in, t_pc, t_stack, t_nodes, t_calls, t_geom>>
slotVars == <<c_res, c_tiles, c_req, c_done, c_written, c_read>>
libVars  == <<misVars, treeVars, slotVars>>
pureVars == <<gridVars, paramVars, sampVars, libVars>>
vars     == <<viewVars, osVars, rendVars, pureVars>>

Workers == 0..(MaxThreads - 1)

\* ------------------------------------------------------------ initial state
\* no snapshot sequence in progress
SnapNone == [step |-> "none", dirty0 |-> FALSE, arrived |-> FALSE]

ViewInit ==
    /\ v_pc = "idle"
    /\ last_op = <<"construct", "ok">>
    /\ m_child = 0
    /\ m_outjson_fd = -1 /\ m_intile_fd = -1 /\ m_outtile_fd = -1
    /\ m_intile_notifier = FALSE
    /\ m_shm_fd = -1 /\ m_shm_data = "null"
    /\ m_scene = Defaults
    /\ m_res = RES0
    /\ m_tiles = << >>
    /\ m_tiles_complete = 0
    /\ m_image = RASTER0 /\ m_image_dirty = FALSE
    /\ m_snapshot = RASTER0 /\ m_snapshot_dirty = FALSE /\ m_snapshot_active = FALSE
    /\ snap_hist = SnapNone
    /\ sent_log = << >>
    /\ done_set = {}

OsInit ==
    /\ forks = 0
    /\ alive = {}
    /\ jsonpipe = << >> /\ reqpipe = << >> /\ cmplpipe = << >>
    /\ seg_size = 0 /\ seg_data = << >>

\* RTCScene scene = nullptr, with the geometries attached to a scene in the
\* order of their ids and those of the instanced tree scene
SCENE0 == [live |-> FALSE, geoms |-> << >>, inst |-> << >>]

\* a SCENE object as constructed: no scene, empty tables
GeomInit ==
    /\ rtc_scene = SCENE0
    /\ shaders = << >> /\ shader_names = << >>
    /\ shader_index = << >> /\ inst_shader_index = << >>
    /\ r_log = << >>

RendInit ==
    /\ GeomInit
    /\ r_pc = "none"
    /\ json_scene = NullScene
    /\ m_shm_size = 0 /\ m_shared_data = 0 /\ map_len = 0
    /\ r_res = RES0
    /\ pixelcolors = << >>
    /\ w_pc = [w \in Workers |-> "none"]
    /\ w_tile = [w \in Workers |-> TILE0]
    /\ w_local = [w \in Workers |-> << >>]
    /\ rval = 0
    /\ renders = 0
    /\ tcomplete = 0

GridIdle ==
    /\ g_pc = "none" /\ g_res = RES0 /\ g_tiles = << >>

\* no parameter panel built yet
ParamIdle ==
    /\ p_value = << >> /\ p_blocked = << >> /\ p_emitted = 0 /\ p_last = << >>

\* no sample position computed yet
SampIdle ==
    /\ s_seed = 0 /\ s_res = << >> /\ s_tile = << >> /\ s_offs = << >>

\* no shading call made yet
MisIdle ==
    /\ mis_in = << >> /\ mis_out = << >>

\* no tree object constructed yet
TreeIdle ==
    /\ t_in = << >> /\ t_pc = "none" /\ t_stack = << >> /\ t_nodes = << >>
    /\ t_calls = 0 /\ t_geom = << >>

\* no render's slots followed yet
SlotIdle ==
    /\ c_res = RES0 /\ c_tiles = << >> /\ c_req = {} /\ c_done = << >>
    /\ c_written = {} /\ c_read = {}

LibIdle == MisIdle /\ TreeIdle /\ SlotIdle

PureIdle == GridIdle /\ ParamIdle /\ SampIdle /\ LibIdle

Init == ViewInit /\ OsInit /\ RendInit /\ PureIdle

\* a process image replaced: the SCENE object of a fresh or dead child
RendFresh(pc) ==
    /\ rtc_scene' = SCENE0
    /\ shaders' = << >> /\ shader_names' = << >>
    /\ shader_index' = << >> /\ inst_shader_index' = << >>
    /\ r_log' = << >>
    /\ r_pc' = pc
    /\ json_scene' = NullScene
    /\ m_shm_size' = 0 /\ m_shared_data' = 0 /\ map_len' = 0
    /\ r_res' = RES0
    /\ pixelcolors' = << >>
    /\ w_pc' = [w \in Workers |-> "none"]
    /\ w_tile' = [w \in Workers |-> TILE0]
    /\ w_local' = [w \in Workers |-> << >>]
    /\ rval' = 0
    /\ renders' = 0
    /\ tcomplete' = 0

\* ================================================================== viewer
\* The request pipe has a reader while the child that inherited outfd[0] runs.
ReaderAlive == m_child \in alive

\* send_tile re-enqueuing while sidx <= nsamples
send_tile_offbyone(st, tid, nsamples, reader) ==
    IF st.killed \/ st.tiles = << >> THEN st
    ELSE LET tile == [Head(st.tiles) EXCEPT !.tid = tid]
             next == [tile EXCEPT !.sidx = @ + 1]
             rest == Tail(st.tiles)
         IN  IF ~reader
             THEN [st EXCEPT !.tiles = rest, !.killed = TRUE]
             ELSE [st EXCEPT !.tiles = IF next.sidx <= nsamples
                                       THEN Append(rest, next) ELSE rest,
                             !.req = Append(st.req, tile),
                             !.log = Append(st.log, tile)]

\* send_tile that puts the next sample at the front of the queue
send_tile_front(st, tid, nsamples, reader) ==
    IF st.killed \/ st.tiles = << >> THEN st
    ELSE LET tile == [Head(st.tiles) EXCEPT !.tid = tid]
             next == [tile EXCEPT !.sidx = @ + 1]
             rest == Tail(st.tiles)
         IN  IF ~reader
             THEN [st EXCEPT !.tiles = rest, !.killed = TRUE]
             ELSE [st EXCEPT !.tiles = IF next.sidx < nsamples
                                       THEN <<next>> \o rest ELSE rest,
                             !.req = Append(st.req, tile),
                             !.log = Append(st.log, tile)]

\* send_tile that never re-enqueues the next sample
send_tile_nopush(st, tid, nsamples, reader) ==
    IF st.killed \/ st.tiles = << >> THEN st
    ELSE LET tile == [Head(st.tiles) EXCEPT !.tid = tid]
             rest == Tail(st.tiles)
         IN  IF ~reader
             THEN [st EXCEPT !.tiles = rest, !.killed = TRUE]
             ELSE [st EXCEPT !.tiles = rest,
                             !.req = Append(st.req, tile),
                             !.log = Append(st.log, tile)]

\* RENDER_VIEW::send_tile on a handler-local copy of the state it touches:
\* st = [tiles, req, log, killed].  A write() on a pipe whose read end is
\* closed raises SIGPIPE, whose default action terminates the viewer.
send_tile(st, tid, nsamples, reader) ==
    IF st.killed \/ st.tiles = << >> THEN st
    ELSE LET tile == [Head(st.tiles) EXCEPT !.tid = tid]
             next == [tile EXCEPT !.sidx = @ + 1]
             rest == Tail(st.tiles)
         IN  IF ~reader
             THEN [st EXCEPT !.tiles = rest, !.killed = TRUE]
             ELSE [st EXCEPT !.tiles = IF next.sidx < nsamples
                                       THEN Append(rest, next) ELSE rest,
                             !.req = Append(st.req, tile),
                             !.log = Append(st.log, tile)]

\* for (int i = 0; i < m_res.nthreads; i++) send_tile(i);
RECURSIVE SeedLoop(_, _, _, _, _)
SeedLoop(st, i, nthreads, nsamples, reader) ==
    IF i >= nthreads THEN st
    ELSE SeedLoop(send_tile(st, i, nsamples, reader), i + 1, nthreads, nsamples, reader)

\* the shared-memory cell at a 0-based cell index (-1: outside the segment)
ShmCell(idx) == IF idx >= 0 /\ idx < Len(seg_data) THEN seg_data[idx + 1] ELSE -1

\* the memcpy loop of intile_event: ysize scan lines of xsize cells
CopyTile(img, res, tile) ==
    [img EXCEPT !.data =
        [i \in 1..Len(img.data) |->
            LET off == i - 1
                py  == off \div img.width
                px  == off % img.width
                y   == py - tile.yoff
                x   == px - tile.xoff
            IN  IF /\ y >= 0 /\ y < tile.ysize
                   /\ x >= 0 /\ x < tile.xsize
                THEN ShmCell(res.tres * res.tres * tile.tid + y * tile.xsize + x)
                ELSE img.data[i]]]

\* re-supply always tagged with worker id 0
ResupplyTid_zero(tile) == 0

\* send_tile(tile.tid): the completed record's worker id is reused
ResupplyTid(tile) == tile.tid

\* the body of the while (bytes > 0) loop of intile_event for records 1..n
RECURSIVE DrainLoop(_, _, _, _)
DrainLoop(st, recs, n, reader) ==
    IF n = 0 \/ st.killed THEN st
    ELSE LET tile == Head(recs)
             sent == send_tile([tiles |-> st.tiles, req |-> st.req,
                                log |-> st.log, killed |-> FALSE],
                               ResupplyTid(tile), m_res.nsamples, reader)
         IN  DrainLoop([tiles    |-> sent.tiles,
                        req      |-> sent.req,
                        log      |-> sent.log,
                        killed   |-> sent.killed,
                        image    |-> CopyTile(st.image, m_res, tile),
                        complete |-> st.complete + 1,
                        done     |-> st.done \cup {<<tile.xoff, tile.yoff, tile.sidx>>}],
                       Tail(recs), n - 1, reader)

\* stop_render that forgets to empty the pending-tile queue
StopConn_keepqueue ==
    /\ m_child' = IF m_child > 0 THEN 0 ELSE m_child
    /\ m_shm_data' = IF m_child > 0 THEN "null" ELSE m_shm_data
    /\ m_shm_fd' = IF m_child > 0 THEN -1 ELSE m_shm_fd
    /\ m_intile_notifier' = IF m_child > 0 THEN FALSE ELSE m_intile_notifier
    /\ m_outjson_fd' = IF m_child > 0 THEN -1 ELSE m_outjson_fd
    /\ m_intile_fd' = IF m_child > 0 THEN -1 ELSE m_intile_fd
    /\ m_outtile_fd' = IF m_child > 0 THEN -1 ELSE m_outtile_fd
    /\ m_tiles' = m_tiles

\* what stop_render leaves in the connection fields
StopConn ==
    /\ m_child' = IF m_child > 0 THEN 0 ELSE m_child
    /\ m_shm_data' = IF m_child > 0 THEN "null" ELSE m_shm_data
    /\ m_shm_fd' = IF m_child > 0 THEN -1 ELSE m_shm_fd
    /\ m_intile_notifier' = IF m_child > 0 THEN FALSE ELSE m_intile_notifier
    /\ m_outjson_fd' = IF m_child > 0 THEN -1 ELSE m_outjson_fd
    /\ m_intile_fd' = IF m_child > 0 THEN -1 ELSE m_intile_fd
    /\ m_outtile_fd' = IF m_child > 0 THEN -1 ELSE m_outtile_fd
    /\ m_tiles' = IF m_child > 0 THEN << >> ELSE m_tiles

\* no kill of the previous child
KillChild_nop == alive

\* if (m_child > 0) kill(m_child, SIGKILL)
KillChild == IF m_child > 0 THEN alive \ {m_child} ELSE alive

\* the kill and the close() of the viewer's pipe ends in stop_render
StopChild ==
    /\ alive' = KillChild
    /\ IF m_child > 0
       THEN /\ jsonpipe' = << >> /\ reqpipe' = << >> /\ cmplpipe' = << >>
            /\ RendFresh("none")
       ELSE UNCHANGED <<jsonpipe, reqpipe, cmplpipe, rendVars>>

\* RENDER_VIEW::stop_render
StopBody ==
    /\ StopConn
    /\ StopChild
    /\ UNCHANGED <<forks, seg_size, seg_data, m_scene, m_res, m_tiles_complete,
                   m_image, m_image_dirty, m_snapshot, m_snapshot_dirty,
                   m_snapshot_active, snap_hist, sent_log, done_set, v_pc, pureVars>>

stop_render ==
    /\ v_pc = "idle"
    /\ last_op' = <<"stop_render", IF m_child > 0 THEN "active" ELSE "idle">>
    /\ StopBody

\* the scene object written to the child: m_scene plus the protocol keys
ChildScene(scene) ==
    JsonSet(JsonSet(JsonSet(scene, "outpipe", 6), "inpipe", 7), "shared_mem", "/slrender")

\* the protocol keys set on m_scene itself
KeptScene_inplace(scene) == ChildScene(scene)

\* what start_render leaves in m_scene: `auto scene = m_scene;` takes a copy
\* and the protocol keys are set on the copy
KeptScene(scene) == scene

\* RENDER_VIEW::start_render up to the blocking read of the resolution record
StartBody(op, scene) ==
    /\ v_pc = "idle"
    /\ forks < MaxStarts
    /\ sent_log' = << >>
    /\ done_set' = {}
    /\ UNCHANGED <<m_res, m_tiles_complete, m_image, m_image_dirty, m_snapshot,
                   m_snapshot_dirty, m_snapshot_active, snap_hist, seg_size, seg_data, pureVars>>
    /\ \E outcome \in {"pipe failed", "fork failed", "write failed", "forked"} :
        /\ last_op' = <<op, outcome>>
        /\ m_scene' = IF outcome \in {"pipe failed", "fork failed"}
                      THEN scene ELSE KeptScene(scene)
        /\ IF outcome = "pipe failed"
           THEN /\ StopConn /\ StopChild
                /\ UNCHANGED <<forks, v_pc>>
           ELSE IF outcome = "fork failed"
           THEN /\ m_child' = -1
                /\ m_shm_data' = IF m_child > 0 THEN "null" ELSE m_shm_data
                /\ m_shm_fd' = IF m_child > 0 THEN -1 ELSE m_shm_fd
                /\ m_intile_notifier' = IF m_child > 0 THEN FALSE ELSE m_intile_notifier
                /\ m_outjson_fd' = IF m_child > 0 THEN -1 ELSE m_outjson_fd
                /\ m_intile_fd' = IF m_child > 0 THEN -1 ELSE m_intile_fd
                /\ m_outtile_fd' = IF m_child > 0 THEN -1 ELSE m_outtile_fd
                /\ m_tiles' = IF m_child > 0 THEN << >> ELSE m_tiles
                /\ StopChild
                /\ UNCHANGED <<forks, v_pc>>
           ELSE /\ m_child' = forks + 1
                /\ forks' = forks + 1
                /\ alive' = KillChild \cup {forks + 1}
                /\ m_outjson_fd' = 4 /\ m_intile_fd' = 5 /\ m_outtile_fd' = 8
                /\ m_shm_data' = IF m_child > 0 THEN "null" ELSE m_shm_data
                /\ m_shm_fd' = IF m_child > 0 THEN -1 ELSE m_shm_fd
                /\ m_intile_notifier' = IF m_child > 0 THEN FALSE ELSE m_intile_notifier
                /\ m_tiles' = IF m_child > 0 THEN << >> ELSE m_tiles
                /\ reqpipe' = << >> /\ cmplpipe' = << >>
                /\ jsonpipe' = IF outcome = "forked" THEN <<ChildScene(scene)>> ELSE << >>
                /\ v_pc' = IF outcome = "forked" THEN "wait_res" ELSE "idle"
                /\ RendFresh("exec")

start_render == StartBody("start_render", m_scene)

\* history of the snapshot display: while the snapshot is shown, remember
\* that the live framebuffer was written (resized or a completion copied in)
SnapTrack(written) ==
    snap_hist' = IF m_snapshot_active /\ written
                 THEN [snap_hist EXCEPT !.arrived = TRUE]
                 ELSE snap_hist

\* RENDER_VIEW::start_render from the read of the resolution record on:
\* init_shm, the tile grid, the notifier and the nthreads seeding requests
start_render_resume ==
    /\ v_pc = "wait_res"
    /\ UNCHANGED <<m_child, m_outjson_fd, m_intile_fd, m_outtile_fd, m_scene, done_set,
                   m_snapshot, m_snapshot_dirty, m_snapshot_active,
                   forks, alive, jsonpipe, seg_size, seg_data, rendVars, pureVars>>
    /\ \/ \* read() returns 0: every write end of the completion pipe is closed
          /\ cmplpipe = << >> /\ m_child \notin alive
          /\ last_op' = <<"start_render", "read failed">>
          /\ v_pc' = "idle"
          /\ UNCHANGED <<m_res, m_shm_fd, m_shm_data, m_tiles, m_tiles_complete,
                         m_image, m_image_dirty, m_intile_notifier, sent_log,
                         reqpipe, cmplpipe>>
       \/ /\ cmplpipe # << >>
          /\ m_res' = Head(cmplpipe)
          /\ cmplpipe' = Tail(cmplpipe)
          /\ \E shm \in {"shm_open failed", "mmap failed", "ok"} :
              IF shm # "ok"
              THEN /\ last_op' = <<"start_render", shm>>
                   /\ v_pc' = "idle"
                   /\ m_shm_fd' = IF shm = "shm_open failed" THEN -1 ELSE 9
                   /\ m_shm_data' = IF shm = "shm_open failed" THEN m_shm_data ELSE "failed"
                   /\ UNCHANGED <<m_tiles, m_tiles_complete, m_image, m_image_dirty,
                                  m_intile_notifier, sent_log, reqpipe>>
              ELSE LET res  == Head(cmplpipe)
                       seed == SeedLoop([tiles  |-> m_tiles \o TileGrid(res),
                                         req    |-> reqpipe,
                                         log    |-> sent_log,
                                         killed |-> FALSE],
                                        0, res.nthreads, res.nsamples, ReaderAlive)
                   IN  /\ m_shm_fd' = 9
                       /\ m_shm_data' = "mapped"
                       /\ m_image' = Raster_resize(m_image, res.xres, res.yres)
                       /\ m_image_dirty' = TRUE
                       /\ m_intile_notifier' = TRUE
                       /\ m_tiles_complete' = 0
                       /\ m_tiles' = seed.tiles
                       /\ reqpipe' = seed.req
                       /\ sent_log' = seed.log
                       /\ v_pc' = IF seed.killed THEN "killed" ELSE "idle"
                       /\ last_op' = <<"start_render",
                                       IF seed.killed THEN "sigpipe" ELSE "ok">>
    /\ SnapTrack(last_op'[2] \in {"ok", "sigpipe"})

\* a read of zero bytes taken for an empty pipe
ReadEnd_zeroisempty(n, len, writer) ==
    IF n = len THEN "eagain" ELSE "error"

\* how the read that ends the loop of intile_event is classified: 0 bytes
\* (no record left and no writer) is end of file, -1 is EAGAIN when the pipe
\* is empty and another error otherwise
ReadEnd(n, len, writer) ==
    IF n = len /\ ~writer THEN "eof"
    ELSE IF n = len THEN "eagain" ELSE "error"

\* RENDER_VIEW::intile_event: n records are read and handled, then the read
\* that ends the loop returns 0 (end of file), EAGAIN, or another error.
intile_event ==
    /\ v_pc = "idle"
    /\ m_intile_notifier
    /\ cmplpipe # << >> \/ m_child \notin alive
    /\ \E n \in 0..Len(cmplpipe) :
        LET st == DrainLoop([tiles |-> m_tiles, req |-> reqpipe, log |-> sent_log,
                             killed |-> FALSE, image |-> m_image,
                             complete |-> m_tiles_complete, done |-> done_set],
                            cmplpipe, n, ReaderAlive)
            end == ReadEnd(n, Len(cmplpipe), m_child \in alive)
        IN  IF st.killed
            THEN /\ v_pc' = "killed"
                 /\ last_op' = <<"intile_event", "sigpipe">>
                 /\ m_tiles' = st.tiles /\ reqpipe' = st.req /\ sent_log' = st.log
                 /\ m_image' = st.image /\ m_tiles_complete' = st.complete /\ done_set' = st.done
                 /\ m_image_dirty' = TRUE
                 /\ cmplpipe' = SubSeq(cmplpipe, n + 1, Len(cmplpipe))
                 /\ UNCHANGED <<m_child, m_shm_data, m_shm_fd, m_intile_notifier,
                                m_outjson_fd, m_intile_fd, m_outtile_fd,
                                alive, jsonpipe, rendVars>>
            ELSE IF end = "eof"
            THEN /\ last_op' = <<"intile_event", "eof">>
                 /\ m_image' = st.image /\ m_tiles_complete' = st.complete /\ done_set' = st.done
                 /\ m_image_dirty' = (m_image_dirty \/ n > 0)
                 /\ sent_log' = st.log
                 /\ StopConn /\ StopChild
                 /\ UNCHANGED v_pc
            ELSE /\ last_op' = <<"intile_event", end>>
                 /\ m_tiles' = st.tiles /\ reqpipe' = st.req /\ sent_log' = st.log
                 /\ m_image' = st.image /\ m_tiles_complete' = st.complete /\ done_set' = st.done
                 /\ m_image_dirty' = (m_image_dirty \/ n > 0)
                 /\ cmplpipe' = SubSeq(cmplpipe, n + 1, Len(cmplpipe))
                 /\ UNCHANGED <<v_pc, m_child, m_shm_data, m_shm_fd, m_intile_notifier,
                                m_outjson_fd, m_intile_fd, m_outtile_fd,
                                alive, jsonpipe, rendVars>>
    /\ SnapTrack(m_tiles_complete' # m_tiles_complete)
    /\ UNCHANGED <<m_scene, m_res, m_snapshot, m_snapshot_dirty, m_snapshot_active,
                   forks, seg_size, seg_data, pureVars>>

\* RENDER_VIEW::keyPressEvent, Qt::Key_Escape
keyPressEvent_Escape ==
    /\ v_pc = "idle"
    /\ last_op' = <<"escape", IF m_child > 0 THEN "active" ELSE "idle">>
    /\ StopBody

\* a restart on every parameter change, render started or not
RestartNeeded_always(img) == TRUE

\* the startup guard of set_parameter: if (!m_image.empty()) start_render()
RestartNeeded(img) == ~Raster_empty(img)

\* RENDER_VIEW::set_parameter
set_parameter ==
    \E name \in ParamKeys : \E value \in ParamValues(name) :
        IF RestartNeeded(m_image)
        THEN StartBody("set_parameter", JsonSet(m_scene, name, value))
        ELSE /\ v_pc = "idle"
             /\ m_scene' = JsonSet(m_scene, name, value)
             /\ last_op' = <<"set_parameter", "stored">>
             /\ UNCHANGED <<v_pc, m_child, m_outjson_fd, m_intile_fd, m_outtile_fd,
                            m_intile_notifier, m_shm_fd, m_shm_data, m_res, m_tiles,
                            m_tiles_complete, m_image, m_image_dirty, m_snapshot,
                            m_snapshot_dirty, m_snapshot_active, snap_hist, sent_log, done_set,
                            osVars, rendVars, pureVars>>

\* RENDER_VIEW::store_snapshot
store_snapshot ==
    /\ v_pc = "idle"
    /\ m_snapshot' = m_image
    /\ m_snapshot_dirty' = TRUE
    /\ last_op' = <<"store_snapshot", "ok">>
    /\ UNCHANGED <<v_pc, m_child, m_outjson_fd, m_intile_fd, m_outtile_fd,
                   m_intile_notifier, m_shm_fd, m_shm_data, m_scene, m_res, m_tiles,
                   m_tiles_complete, m_image, m_image_dirty, m_snapshot_active,
                   snap_hist, sent_log, done_set, osVars, rendVars, pureVars>>

\* the live dirty flag left as it was when the view returns to the render
LiveDirtyOnReturn_kept(dirty) == dirty

\* toggle_snapshot leaving the snapshot: else m_image_dirty = true
LiveDirtyOnReturn(dirty) == TRUE

\* RENDER_VIEW::toggle_snapshot (keys Left and Right, and the toggle action)
toggle_snapshot ==
    /\ v_pc = "idle"
    /\ IF ~Raster_empty(m_snapshot)
       THEN /\ m_snapshot_active' = ~m_snapshot_active
            /\ m_snapshot_dirty' = IF ~m_snapshot_active THEN TRUE ELSE m_snapshot_dirty
            /\ m_image_dirty' = IF ~m_snapshot_active THEN m_image_dirty
                                ELSE LiveDirtyOnReturn(m_image_dirty)
            /\ snap_hist' = IF ~m_snapshot_active
                            THEN [step |-> "shown", dirty0 |-> m_image_dirty,
                                  arrived |-> FALSE]
                            ELSE [snap_hist EXCEPT !.step = "back"]
            /\ last_op' = <<"toggle_snapshot",
                            IF ~m_snapshot_active THEN "snapshot" ELSE "live">>
       ELSE /\ last_op' = <<"toggle_snapshot", "no snapshot">>
            /\ UNCHANGED <<m_snapshot_active, m_snapshot_dirty, m_image_dirty, snap_hist>>
    /\ UNCHANGED <<v_pc, m_child, m_outjson_fd, m_intile_fd, m_outtile_fd,
                   m_intile_notifier, m_shm_fd, m_shm_data, m_scene, m_res, m_tiles,
                   m_tiles_complete, m_image, m_snapshot, sent_log, done_set,
                   osVars, rendVars, pureVars>>

\* RENDER_VIEW::paintGL: the dirty raster of the displayed source is uploaded
\* and its flag cleared; the overlay of the live view divides by
\* tile_count * nsamples, which is zero until a resolution record was read
\* (an integer division by zero: the process is killed or goes on)
paintGL ==
    /\ v_pc = "idle"
    /\ m_snapshot_dirty' = IF m_snapshot_active THEN FALSE ELSE m_snapshot_dirty
    /\ m_image_dirty' = IF m_snapshot_active THEN m_image_dirty ELSE FALSE
    /\ last_op' = <<"paintGL", IF m_snapshot_active THEN "snapshot" ELSE "live">>
    /\ IF ~m_snapshot_active /\ (m_res.tres = 0 \/ m_res.nsamples = 0)
       THEN v_pc' \in {"idle", "killed"}
       ELSE v_pc' = v_pc
    /\ UNCHANGED <<m_child, m_outjson_fd, m_intile_fd, m_outtile_fd,
                   m_intile_notifier, m_shm_fd, m_shm_data, m_scene, m_res, m_tiles,
                   m_tiles_complete, m_image, m_snapshot, m_snapshot_active,
                   snap_hist, sent_log, done_set, osVars, rendVars, pureVars>>

\* RENDER_VIEW::set_scene, called by New with the defaults map
set_scene == StartBody("set_scene", Defaults)

\* scene files the user can open
SceneFiles ==
    { [k \in {"res", "tres", "version"} |-> IF k = "res" THEN <<1, 1>> ELSE 1],
      [k \in ParamKeys |-> IF k = "res" THEN <<MaxXRes, 1>> ELSE 1] }

\* every default assigned, present in the file or not
MergeDefaults_overwrite(scene, defs) ==
    [k \in (DOMAIN scene) \cup (DOMAIN defs) |->
        IF k \in DOMAIN defs THEN defs[k] ELSE scene[k]]

\* the defaulting loop of RENDER_VIEW::open
MergeDefaults(scene, defs) ==
    [k \in (DOMAIN scene) \cup (DOMAIN defs) |->
        IF k \in DOMAIN scene THEN scene[k] ELSE defs[k]]

\* RENDER_VIEW::open
open ==
    \E file \in SceneFiles : StartBody("open", MergeDefaults(file, Defaults))

\* ================================================================ renderer
RendAlive == forks > 0 /\ forks \in alive

\* the child side of fork(): execvp of the renderer binary
child_exec ==
    /\ RendAlive /\ r_pc = "exec"
    /\ \E ok \in BOOLEAN : r_pc' = IF ok THEN "load" ELSE "clone"
    /\ UNCHANGED <<viewVars, osVars, pureVars, json_scene, m_shm_size, m_shared_data, map_len,
                   r_res, pixelcolors, w_pc, w_tile, w_local, rval, renders, tcomplete,
                   geomVars>>

\* SCENE::load: one JSON object from standard input
load ==
    /\ RendAlive /\ r_pc = "load"
    /\ jsonpipe # << >>
    /\ json_scene' = Head(jsonpipe)
    /\ jsonpipe' = Tail(jsonpipe)
    /\ r_pc' = "render"
    /\ UNCHANGED <<viewVars, pureVars, forks, alive, reqpipe, cmplpipe, seg_size,
                   seg_data, m_shm_size, m_shared_data, map_len, r_res, pixelcolors,
                   w_pc, w_tile, w_local, rval, renders, tcomplete,
                   geomVars>>

\* the RES without the clamp of nthreads
RenderRes_noclamp(scene) ==
    [xres     |-> scene["res"][1],
     yres     |-> scene["res"][2],
     tres     |-> scene["tres"],
     nsamples |-> scene["samples"],
     nthreads |-> scene["nthreads"]]

\* the RES that render() builds from the scene, nthreads clamped to tile_count
RenderRes(scene) ==
    LET res == [xres     |-> scene["res"][1],
                yres     |-> scene["res"][2],
                tres     |-> scene["tres"],
                nsamples |-> scene["samples"],
                nthreads |-> scene["nthreads"]]
    IN  [res EXCEPT !.nthreads = Min(res.nthreads, tile_count(res))]

\* ftruncate on the segment: leading cells kept, new cells zero
Truncate(data, bytes) ==
    [i \in 1..(bytes \div CellBytes) |-> IF i <= Len(data) THEN data[i] ELSE 0]

\* a render that never sizes or maps the segment
NeedsRemap_never(res) == FALSE

\* remap only when the segment has to grow
NeedsRemap_grow(res) == shm_size(res) > m_shm_size

\* if (res.shm_size() != m_shm_size)
NeedsRemap(res) == shm_size(res) # m_shm_size

\* SCENE::render, the shared-memory block: remap when the size changes
render_shm ==
    /\ RendAlive /\ r_pc = "render"
    /\ renders < MaxRenders
    /\ renders' = renders + 1
    /\ LET res == RenderRes(json_scene)
       IN  /\ r_res' = res
           /\ IF NeedsRemap(res)
              THEN /\ m_shm_size' = shm_size(res)
                   /\ \E sys \in {"ftruncate failed", "mmap failed", "ok"} :
                       /\ seg_size' = IF sys = "ftruncate failed" THEN seg_size
                                      ELSE shm_size(res)
                       /\ seg_data' = IF sys = "ftruncate failed" THEN seg_data
                                      ELSE Truncate(seg_data, shm_size(res))
                       /\ m_shared_data' = CASE sys = "ftruncate failed" -> 0
                                             [] sys = "mmap failed" -> -1
                                             [] OTHER -> renders + 1
                       /\ map_len' = IF sys = "ok" THEN shm_size(res) ELSE 0
                       /\ rval' = IF sys = "ok" THEN 0 ELSE 1
                       /\ r_pc' = IF sys = "ok" THEN "write_res" ELSE "update"
              ELSE /\ r_pc' = "write_res"
                   /\ rval' = 0
                   /\ UNCHANGED <<m_shm_size, m_shared_data, map_len, seg_size, seg_data>>
    /\ UNCHANGED <<viewVars, pureVars, forks, alive, jsonpipe, reqpipe, cmplpipe,
                   json_scene, pixelcolors, w_pc, w_tile, w_local, tcomplete,
                   geomVars>>

\* ----------------------------------------------- shader table and geometry
\* the names TERRAIN::publish_ui publishes
TerrainNames ==
    {"terrain_pos", "terrain_size", "terrain_near_clip", "terrain_field_of_view",
     "terrain_levels", "wave_filter_width", "wave_octaves", "wave_amplitude",
     "wave_frequency", "wave_roughness", "wave_frequency_scale", "enable_terrain",
     "enable_water"}

\* the names TREE::publish_ui publishes
TreeNames ==
    {"tree_seed", "levels", "tree_height", "trunk_radius_ratio", "leaf_area_ratio",
     "branching_type", "branch_ratio", "branch_ratio_variance",
     "branch_length_exponent", "da_vinci_exponent", "branch_spread_angle",
     "branch_twist_angle", "branch_angle_variance", "branch_color", "leaf_color",
     "enable_leaves"}

\* the names FOREST::publish_ui publishes
ForestNames == {"tree_count"}

\* geometry_affecting_parameters of SCENE::update
GeometryAffecting == TerrainNames \cup TreeNames \cup ForestNames

\* the "default" entries of the published descriptors the generators read
PublishedDefault(key) ==
    CASE key = "enable_leaves"  -> TRUE
      [] key = "enable_terrain" -> TRUE
      [] key = "enable_water"   -> FALSE
      [] key = "tree_count"     -> 1
      [] OTHER                  -> 0

\* m_parameters[key]: the viewer sends a scene that carries every published
\* default, so a key the scene map leaves out stands at its default
Parameter(scene, key) ==
    IF key \in DOMAIN scene THEN scene[key] ELSE PublishedDefault(key)

\* BRDF(parameters[color]): a reflectance model, named by its colour parameter
BRDF(color) == color

\* BRDF::create_shaders: both lists cleared, four shaders in a fixed order
create_shaders ==
    [shaders      |-> <<BRDF("diffuse_color"), BRDF("branch_color"),
                        BRDF("leaf_color"), BRDF("water_color")>>,
     shader_names |-> <<"default", "branch", "leaf", "water">>]

\* the first position of s in a list, 0 when it has none
Position(list, s) ==
    IF \E i \in 1..Len(list) : list[i] = s
    THEN (CHOOSE i \in 1..Len(list) :
              list[i] = s /\ \A j \in 1..(i - 1) : list[j] # s) - 1
    ELSE 0

\* BRDF::find_shader
find_shader(names, s) == Position(names, s)

\* set_shader_index: resize(id + 1, -1) if needed, then table[id] = shader_id
set_shader_index(table, id, shader_id) ==
    [i \in 1..(IF Len(table) <= id THEN id + 1 ELSE Len(table)) |->
        IF i = id + 1 THEN shader_id
        ELSE IF i <= Len(table) THEN table[i] ELSE -1]

\* rtcAttachGeometry: the new geometry takes the next id of its scene; bound
\* is the entry of the list handed to the builder that its index denotes
Attach(geoms, kind, bound) == Append(geoms, [kind |-> kind, bound |-> bound])

\* TREE::embree_geometry on a scene's geometries, an index table and the
\* list it is handed: each shader is appended to the list and the geometry
\* records the size the list had before
TREE_embree_geometry(st, scene) ==
    LET id0 == Len(st.geoms)
        s0  == Len(st.list)
        st1 == [st EXCEPT !.list  = Append(@, BRDF("branch_color")),
                          !.geoms = Attach(@, "branch", BRDF("branch_color")),
                          !.table = set_shader_index(@, id0, s0)]
        s1  == Len(st1.list)
    IN  IF Parameter(scene, "enable_leaves")
        THEN [st1 EXCEPT !.list  = Append(@, BRDF("leaf_color")),
                         !.geoms = Attach(@, "leaf", BRDF("leaf_color")),
                         !.table = set_shader_index(@, id0 + 1, s1)]
        ELSE st1

\* count instance geometries attached to the scene
RECURSIVE Instances(_, _)
Instances(geoms, count) ==
    IF count <= 0 THEN geoms
    ELSE Instances(Attach(geoms, "instance", "none"), count - 1)

\* TERRAIN::embree_geometry: ground and water resolve their shaders by name
TERRAIN_embree_geometry(st, scene) ==
    LET ground == find_shader(st.list, "default")
        st1 == IF Parameter(scene, "enable_terrain")
               THEN [st EXCEPT !.table = set_shader_index(@, Len(st.geoms), ground),
                               !.geoms = Attach(@, "terrain", st.list[ground + 1])]
               ELSE st
        water == find_shader(st1.list, "water")
    IN  IF Parameter(scene, "enable_water")
        THEN [st1 EXCEPT !.table = set_shader_index(@, Len(st1.geoms), water),
                         !.geoms = Attach(@, "water", st1.list[water + 1])]
        ELSE st1

\* if (json_scene["forest_levels"] > 0.0F)
IsForest(scene) == Parameter(scene, "forest_levels") > 0

\* SCENE::create_geometry on the tables of a scene object g: a forest (one
\* tree in its own scene, instanced tree_count times) or one tree, then the
\* terrain; every builder is handed shader_names
create_geometry(g, scene) ==
    IF IsForest(scene)
    THEN LET tree == TREE_embree_geometry(
                         [geoms |-> << >>, table |-> g.inst_shader_index,
                          list |-> g.shader_names], scene)
             terr == TERRAIN_embree_geometry(
                         [geoms |-> Instances(<< >>, Parameter(scene, "tree_count")),
                          table |-> g.shader_index, list |-> tree.list], scene)
         IN  [g EXCEPT !.rtc_scene = [live |-> TRUE, geoms |-> terr.geoms,
                                      inst |-> tree.geoms],
                       !.inst_shader_index = tree.table,
                       !.shader_index = terr.table,
                       !.shader_names = terr.list]
    ELSE LET tree == TREE_embree_geometry(
                         [geoms |-> << >>, table |-> g.shader_index,
                          list |-> g.shader_names], scene)
             terr == TERRAIN_embree_geometry(tree, scene)
         IN  [g EXCEPT !.rtc_scene = [live |-> TRUE, geoms |-> terr.geoms,
                                      inst |-> << >>],
                       !.shader_index = terr.table,
                       !.shader_names = terr.list]

\* SCENE::clear_geometry
clear_geometry(g) ==
    [g EXCEPT !.rtc_scene = SCENE0, !.shader_index = << >>,
              !.inst_shader_index = << >>]

\* a render that builds geometry every time
NoScene_always(g) == TRUE

\* if (!scene)
NoScene(g) == ~g.rtc_scene.live

\* SCENE::render between the write of the resolution record and the start
\* of the workers: create_shaders, then create_geometry if there is no scene
render_geometry(g, scene) ==
    LET tabs == create_shaders
        g1   == [g EXCEPT !.shaders = tabs.shaders,
                          !.shader_names = tabs.shader_names,
                          !.r_log = <<"write", "create_shaders">>]
    IN  IF NoScene(g1)
        THEN [create_geometry(g1, scene) EXCEPT
                  !.r_log = Append(g1.r_log, "create_geometry")]
        ELSE g1

\* the geometry members of the scene object
Geometry ==
    [rtc_scene |-> rtc_scene, shaders |-> shaders, shader_names |-> shader_names,
     shader_index |-> shader_index, inst_shader_index |-> inst_shader_index,
     r_log |-> r_log]

\* the geometry members assigned
SetGeometry(g) ==
    /\ rtc_scene' = g.rtc_scene
    /\ shaders' = g.shaders /\ shader_names' = g.shader_names
    /\ shader_index' = g.shader_index
    /\ inst_shader_index' = g.inst_shader_index
    /\ r_log' = g.r_log

\* SCENE::render from the write of the resolution record to the start of the
\* nthreads worker tasks
render_start ==
    /\ RendAlive /\ r_pc = "write_res"
    /\ cmplpipe' = Append(cmplpipe, r_res)
    /\ SetGeometry(render_geometry(Geometry, json_scene))
    /\ pixelcolors' = [i \in 1..(r_res.xres * r_res.yres) |-> 0]
    /\ w_pc' = [w \in Workers |-> IF w < r_res.nthreads THEN "read" ELSE "none"]
    /\ w_tile' = [w \in Workers |-> TILE0]
    /\ w_local' = [w \in Workers |-> << >>]
    /\ r_pc' = "workers"
    /\ tcomplete' = 0
    /\ UNCHANGED <<viewVars, pureVars, forks, alive, jsonpipe, reqpipe, seg_size,
                   seg_data, json_scene, m_shm_size, m_shared_data, map_len, r_res, rval, renders>>

\* the 0-based accumulator indices of a tile's pixels
TilePixels(tile, res) ==
    { (y + tile.yoff) * res.xres + x + tile.xoff :
        y \in 0..(tile.ysize - 1), x \in 0..(tile.xsize - 1) }

\* the radiance estimate the integrator adds for one sample of one pixel
Radiance(ioff, sidx) == 2 * (sidx + 1)

\* finalization of one pixel: average, clamp to 1.0, pack (gamma 1)
Packed(acc, sidx) == Min(acc \div (sidx + 1), PackedMax)

\* worker loop: read(inpipe_fd, &tile, sizeof(TILE)); break on xsize == 0
\* a worker task that leaves its loop after any request
EndOfWork_any(tile) == TRUE

\* a worker loop without the break
EndOfWork_never(tile) == FALSE

\* worker loop: if (tile.xsize == 0) break;
EndOfWork(tile) == tile.xsize = 0

worker_read(w) ==
    /\ RendAlive /\ r_pc = "workers" /\ w_pc[w] = "read"
    /\ reqpipe # << >>
    /\ reqpipe' = Tail(reqpipe)
    /\ w_tile' = [w_tile EXCEPT ![w] = Head(reqpipe)]
    /\ w_pc' = [w_pc EXCEPT ![w] = IF EndOfWork(Head(reqpipe)) THEN "done" ELSE "load"]
    /\ UNCHANGED <<viewVars, pureVars, forks, alive, jsonpipe, cmplpipe, seg_size,
                   seg_data, r_pc, json_scene, m_shm_size, m_shared_data, map_len, r_res,
                   pixelcolors, w_local, rval, renders, tcomplete,
                   geomVars>>

\* render_tile: pixelcolors[ioff] += clr is a load ...
worker_load(w) ==
    /\ RendAlive /\ r_pc = "workers" /\ w_pc[w] = "load"
    /\ w_local' = [w_local EXCEPT ![w] =
            [i \in 1..Len(pixelcolors) |->
                IF (i - 1) \in TilePixels(w_tile[w], r_res) THEN pixelcolors[i] ELSE 0]]
    /\ w_pc' = [w_pc EXCEPT ![w] = "store"]
    /\ UNCHANGED <<viewVars, pureVars, osVars, r_pc, json_scene, m_shm_size,
                   m_shared_data, map_len, r_res, pixelcolors, w_tile, rval, renders, tcomplete,
                   geomVars>>

\* ... and a store, unsynchronized with the other workers
worker_store(w) ==
    /\ RendAlive /\ r_pc = "workers" /\ w_pc[w] = "store"
    /\ pixelcolors' =
            [i \in 1..Len(pixelcolors) |->
                IF (i - 1) \in TilePixels(w_tile[w], r_res)
                THEN w_local[w][i] + Radiance(i - 1, w_tile[w].sidx)
                ELSE pixelcolors[i]]
    /\ w_local' = [w_local EXCEPT ![w] = << >>]
    /\ w_pc' = [w_pc EXCEPT ![w] = "finalize"]
    /\ UNCHANGED <<viewVars, pureVars, osVars, r_pc, json_scene, m_shm_size,
                   m_shared_data, map_len, r_res, w_tile, rval, renders, tcomplete,
                   geomVars>>

\* render_tile, "Finalize the tile": the worker slot of shared memory
worker_finalize(w) ==
    /\ RendAlive /\ r_pc = "workers" /\ w_pc[w] = "finalize"
    /\ LET tile == w_tile[w]
           base == r_res.tres * r_res.tres * tile.tid
       IN  seg_data' =
            [i \in 1..Len(seg_data) |->
                LET poff == (i - 1) - base
                    y    == poff \div tile.xsize
                    x    == poff % tile.xsize
                IN  IF poff >= 0 /\ poff < tile.xsize * tile.ysize
                    THEN Packed(pixelcolors[(y + tile.yoff) * r_res.xres + x + tile.xoff + 1],
                                tile.sidx)
                    ELSE seg_data[i]]
    /\ w_pc' = [w_pc EXCEPT ![w] = "write"]
    /\ UNCHANGED <<viewVars, pureVars, forks, alive, jsonpipe, reqpipe, cmplpipe,
                   seg_size, r_pc, json_scene, m_shm_size, m_shared_data, map_len, r_res,
                   pixelcolors, w_tile, w_local, rval, renders, tcomplete,
                   geomVars>>

\* worker loop: write(outpipe_fd, &tile, sizeof(TILE))
worker_write(w) ==
    /\ RendAlive /\ r_pc = "workers" /\ w_pc[w] = "write"
    /\ cmplpipe' = Append(cmplpipe, w_tile[w])
    /\ w_tile' = [w_tile EXCEPT ![w] = TILE0]
    /\ w_pc' = [w_pc EXCEPT ![w] = "read"]
    /\ tcomplete' = tcomplete + 1
    /\ UNCHANGED <<viewVars, pureVars, forks, alive, jsonpipe, reqpipe, seg_size,
                   seg_data, r_pc, json_scene, m_shm_size, m_shared_data, map_len, r_res,
                   pixelcolors, w_local, rval, renders, geomVars>>

\* the renderer terminates abnormally (uncaught exception, external signal)
child_exit ==
    /\ RendAlive
    /\ alive' = alive \ {forks}
    /\ reqpipe' = << >> /\ jsonpipe' = << >>
    /\ RendFresh("none")
    /\ UNCHANGED <<viewVars, pureVars, forks, cmplpipe, seg_size, seg_data>>

\* =========================================================== specification
Next ==
    \/ start_render
    \/ start_render_resume
    \/ stop_render
    \/ keyPressEvent_Escape
    \/ set_parameter
    \/ set_scene
    \/ open
    \/ intile_event
    \/ child_exec
    \/ load
    \/ render_shm
    \/ render_start
    \/ \E w \in Workers : worker_read(w)
    \/ \E w \in Workers : worker_load(w)
    \/ \E w \in Workers : worker_store(w)
    \/ \E w \in Workers : worker_finalize(w)
    \/ \E w \in Workers : worker_write(w)
    \/ child_exit

Spec == Init /\ [][Next]_vars

\* ------------------------------------------------- the tile grid function
GridInputs ==
    {[xres |-> w, yres |-> h, tres |-> t, nsamples |-> 1, nthreads |-> 1] :
        w \in 1..GridMaxRes, h \in 1..GridMaxRes, t \in 1..GridMaxTres}

GridInit ==
    /\ ViewInit /\ OsInit /\ RendInit /\ ParamIdle /\ SampIdle /\ LibIdle
    /\ g_pc = "input" /\ g_res \in GridInputs /\ g_tiles = << >>

\* "Create the tile queue for the first sample" on an empty m_tiles
grid_build ==
    /\ g_pc = "input"
    /\ g_tiles' = TileGrid(g_res)
    /\ g_pc' = "built"
    /\ UNCHANGED <<g_res, viewVars, osVars, rendVars, paramVars, sampVars, libVars>>

GridNext == grid_build

GridSpec == GridInit /\ [][GridNext]_vars

\* ------------------------------------- the renderer under a script (CLI loop)
LoopScenes ==
    {[k \in ParamKeys \cup {"outpipe", "inpipe", "shared_mem"} |->
        CASE k = "res"        -> <<x, y>>
          [] k = "tres"       -> t
          [] k = "nthreads"   -> n
          [] k = "samples"    -> 1
          [] k = "outpipe"    -> 1
          [] k = "inpipe"     -> 3
          [] k = "shared_mem" -> 4] :
        x \in 1..MaxXRes, y \in 1..MaxYRes, t \in 1..LoopMaxTres, n \in 1..MaxThreads}

\* incremental edits a script can write to the renderer's standard input
LoopUpdates ==
    {[k \in {"tres"} |-> t] : t \in 1..LoopMaxTres}
    \cup {[k \in {"nthreads"} |-> n] : n \in 1..MaxThreads}
    \cup {[k \in {"res"} |-> <<x, y>>] : x \in 1..MaxXRes, y \in 1..MaxYRes}

\* slrender started by a script: one scene object waits on standard input
LoopInit ==
    /\ ViewInit /\ PureIdle
    /\ forks = 1 /\ alive = {1}
    /\ \E scene \in LoopScenes : jsonpipe = <<scene>>
    /\ reqpipe = << >> /\ cmplpipe = << >>
    /\ seg_size = 0 /\ seg_data = << >>
    /\ GeomInit
    /\ r_pc = "load"
    /\ json_scene = NullScene
    /\ m_shm_size = 0 /\ m_shared_data = 0 /\ map_len = 0
    /\ r_res = RES0
    /\ pixelcolors = << >>
    /\ w_pc = [w \in Workers |-> "none"]
    /\ w_tile = [w \in Workers |-> TILE0]
    /\ w_local = [w \in Workers |-> << >>]
    /\ rval = 0
    /\ renders = 0
    /\ tcomplete = 0

\* the script, having read nthreads from the resolution record, ends a
\* worker task: a record with xsize == 0
script_sentinel ==
    /\ RendAlive /\ r_pc = "workers"
    /\ cmplpipe = << >>
    /\ Len(reqpipe) + Cardinality({w \in Workers : w_pc[w] = "done"}) < r_res.nthreads
    /\ reqpipe' = Append(reqpipe, TILE0)
    /\ UNCHANGED <<viewVars, pureVars, forks, alive, jsonpipe, cmplpipe, seg_size,
                   seg_data, rendVars>>

\* the script writes one JSON object of edits
script_update ==
    /\ RendAlive /\ r_pc # "load" /\ jsonpipe = << >>
    /\ renders < MaxRenders
    /\ \E upd \in LoopUpdates : jsonpipe' = <<upd>>
    /\ UNCHANGED <<viewVars, pureVars, forks, alive, reqpipe, cmplpipe, seg_size,
                   seg_data, rendVars>>

\* the script reads a record from the renderer's output channel
script_read ==
    /\ cmplpipe # << >>
    /\ cmplpipe' = Tail(cmplpipe)
    /\ UNCHANGED <<viewVars, pureVars, forks, alive, jsonpipe, reqpipe, seg_size,
                   seg_data, rendVars>>

\* parallel_for returns when every worker task has left its loop
render_return ==
    /\ RendAlive /\ r_pc = "workers"
    /\ \A w \in Workers : w < r_res.nthreads => w_pc[w] = "done"
    /\ r_pc' = "update"
    /\ rval' = 0
    /\ w_pc' = [w \in Workers |-> "none"]
    /\ w_tile' = [w \in Workers |-> TILE0]
    /\ UNCHANGED <<viewVars, pureVars, osVars, json_scene, m_shm_size, m_shared_data,
                   map_len, r_res, pixelcolors, w_local, renders, tcomplete,
                   geomVars>>

\* the merge loop of SCENE::update
MergeUpdates(scene, upd) ==
    [k \in (DOMAIN scene) \cup (DOMAIN upd) |->
        IF k \in DOMAIN upd THEN upd[k] ELSE scene[k]]

\* an update that discards the geometry whatever it edits
GeometryEdited_any(upd) == TRUE

\* the search of SCENE::update: some published name is a key of the edits
GeometryEdited(upd) == \E name \in GeometryAffecting : name \in DOMAIN upd

\* main loop: scene.update(std::cin), then the while (!rval) test
update ==
    /\ RendAlive /\ r_pc = "update"
    /\ jsonpipe # << >>
    /\ json_scene' = MergeUpdates(json_scene, Head(jsonpipe))
    /\ jsonpipe' = Tail(jsonpipe)
    /\ SetGeometry(IF GeometryEdited(Head(jsonpipe))
                   THEN clear_geometry(Geometry) ELSE Geometry)
    /\ IF rval = 0
       THEN /\ r_pc' = "render"
            /\ UNCHANGED alive
       ELSE /\ r_pc' = "exited"
            /\ alive' = alive \ {forks}
    /\ UNCHANGED <<viewVars, pureVars, forks, reqpipe, cmplpipe, seg_size, seg_data,
                   m_shm_size, m_shared_data, map_len, r_res, pixelcolors, w_pc,
                   w_tile, w_local, rval, renders, tcomplete>>

LoopNext ==
    \/ load
    \/ render_shm
    \/ render_start
    \/ \E w \in Workers : worker_read(w)
    \/ render_return
    \/ update
    \/ script_sentinel
    \/ script_update
    \/ script_read

LoopSpec == LoopInit /\ [][LoopNext]_vars

\* ------------------------------------------- one render, fairly scheduled
Scenes ==
    {[k \in ParamKeys |->
        CASE k = "res"      -> <<x, y>>
          [] k = "tres"     -> t
          [] k = "nthreads" -> n
          [] k = "samples"  -> s] :
        x \in 1..MaxXRes, y \in 1..MaxYRes, t \in 1..MaxTres,
        n \in 1..MaxThreads, s \in 1..MaxSamples}

\* the view before its first render, parameters already edited
LiveInit ==
    /\ OsInit /\ RendInit /\ PureIdle
    /\ v_pc = "idle"
    /\ last_op = <<"construct", "ok">>
    /\ m_child = 0
    /\ m_outjson_fd = -1 /\ m_intile_fd = -1 /\ m_outtile_fd = -1
    /\ m_intile_notifier = FALSE
    /\ m_shm_fd = -1 /\ m_shm_data = "null"
    /\ m_scene \in Scenes
    /\ m_res = RES0
    /\ m_tiles = << >>
    /\ m_tiles_complete = 0
    /\ m_image = RASTER0 /\ m_image_dirty = FALSE
    /\ m_snapshot = RASTER0 /\ m_snapshot_dirty = FALSE /\ m_snapshot_active = FALSE
    /\ snap_hist = SnapNone
    /\ sent_log = << >>
    /\ done_set = {}

first_render == forks = 0 /\ start_render

LiveNext ==
    \/ first_render
    \/ start_render_resume
    \/ intile_event
    \/ child_exec
    \/ load
    \/ render_shm
    \/ render_start
    \/ \E w \in Workers : worker_read(w)
    \/ \E w \in Workers : worker_load(w)
    \/ \E w \in Workers : worker_store(w)
    \/ \E w \in Workers : worker_finalize(w)
    \/ \E w \in Workers : worker_write(w)

\* the worker tasks are scheduled by the operating system and the readiness
\* callback by the event loop: none of them is postponed forever
LiveSpec ==
    /\ LiveInit /\ [][LiveNext]_vars
    /\ WF_vars(start_render_resume)
    /\ WF_vars(intile_event)
    /\ WF_vars(child_exec) /\ WF_vars(load) /\ WF_vars(render_shm) /\ WF_vars(render_start)
    /\ \A w \in Workers :
        /\ WF_vars(worker_read(w)) /\ WF_vars(worker_load(w)) /\ WF_vars(worker_store(w))
        /\ WF_vars(worker_finalize(w)) /\ WF_vars(worker_write(w))

\* ------------------------------ the CLI loop serving requests of a script
\* requests of the current render the script has written so far
Issued ==
    tcomplete
    + Cardinality({w \in Workers : w_pc[w] \in {"load", "store", "finalize", "write"}})
    + Cardinality({i \in 1..Len(reqpipe) : reqpipe[i].xsize # 0})

\* sentinels of the current render the script has written so far
Sentinels ==
    Cardinality({w \in Workers : w_pc[w] = "done"})
    + Cardinality({i \in 1..Len(reqpipe) : reqpipe[i].xsize = 0})

\* the script writes the next request of the image, tile by tile and sample
\* by sample, to a worker slot; it may stop before the image is complete
script_request ==
    /\ RendAlive /\ r_pc = "workers"
    /\ cmplpipe = << >>
    /\ Sentinels = 0
    /\ Issued < tile_count(r_res) * r_res.nsamples
    /\ LET grid == TileGrid(r_res)
           tile == [grid[(Issued % Len(grid)) + 1] EXCEPT
                        !.sidx = Issued \div Len(grid),
                        !.tid  = Issued % r_res.nthreads]
       IN  reqpipe' = Append(reqpipe, tile)
    /\ UNCHANGED <<viewVars, pureVars, forks, alive, jsonpipe, cmplpipe, seg_size,
                   seg_data, rendVars>>

ServeNext ==
    \/ LoopNext
    \/ script_request
    \/ \E w \in Workers : worker_load(w)
    \/ \E w \in Workers : worker_store(w)
    \/ \E w \in Workers : worker_finalize(w)
    \/ \E w \in Workers : worker_write(w)

\* the renderer's own steps are scheduled by the operating system and are not
\* postponed forever; nothing obliges the script to write or to read
ServeSpec ==
    /\ LoopInit /\ [][ServeNext]_vars
    /\ WF_vars(load) /\ WF_vars(render_shm) /\ WF_vars(render_start)
    /\ WF_vars(render_return) /\ WF_vars(update)
    /\ \A w \in Workers :
        /\ WF_vars(worker_read(w)) /\ WF_vars(worker_load(w)) /\ WF_vars(worker_store(w))
        /\ WF_vars(worker_finalize(w)) /\ WF_vars(worker_write(w))

\* --------------------------- the CLI loop under edits of the scene content
\* scenes a script can send: one tree or a forest, with or without leaves
GeomScenes ==
    {[k \in ParamKeys \cup {"outpipe", "inpipe", "shared_mem", "forest_levels",
                            "enable_leaves"} |->
        CASE k = "res"           -> <<1, 1>>
          [] k = "tres"          -> 1
          [] k = "nthreads"      -> 1
          [] k = "samples"       -> 1
          [] k = "outpipe"       -> 1
          [] k = "inpipe"        -> 3
          [] k = "shared_mem"    -> 4
          [] k = "forest_levels" -> f
          [] k = "enable_leaves" -> l] :
        f \in 0..1, l \in BOOLEAN}

\* edits of the scene content: of parameters the generators publish, of
\* parameters they do not, and of both in one object
GeomUpdates ==
    {[k \in {"enable_water"} |-> TRUE],
     [k \in {"enable_terrain"} |-> FALSE],
     [k \in {"enable_leaves"} |-> FALSE],
     [k \in {"tree_count"} |-> 2],
     [k \in {"leaf_color"} |-> 1],
     [k \in {"sun_elevation"} |-> 1],
     [k \in {"forest_levels"} |-> 1],
     [k \in {"sun_elevation", "enable_water"} |-> TRUE]}

GeomLoopInit ==
    /\ ViewInit /\ PureIdle
    /\ forks = 1 /\ alive = {1}
    /\ \E scene \in GeomScenes : jsonpipe = <<scene>>
    /\ reqpipe = << >> /\ cmplpipe = << >>
    /\ seg_size = 0 /\ seg_data = << >>
    /\ GeomInit
    /\ r_pc = "load"
    /\ json_scene = NullScene
    /\ m_shm_size = 0 /\ m_shared_data = 0 /\ map_len = 0
    /\ r_res = RES0
    /\ pixelcolors = << >>
    /\ w_pc = [w \in Workers |-> "none"]
    /\ w_tile = [w \in Workers |-> TILE0]
    /\ w_local = [w \in Workers |-> << >>]
    /\ rval = 0
    /\ renders = 0
    /\ tcomplete = 0

\* the script writes one JSON object of edits of the scene content
script_edit ==
    /\ RendAlive /\ r_pc # "load" /\ jsonpipe = << >>
    /\ renders < MaxRenders
    /\ \E upd \in GeomUpdates : jsonpipe' = <<upd>>
    /\ UNCHANGED <<viewVars, pureVars, forks, alive, reqpipe, cmplpipe, seg_size,
                   seg_data, rendVars>>

GeomNext ==
    \/ load
    \/ render_shm
    \/ render_start
    \/ \E w \in Workers : worker_read(w)
    \/ \E w \in Workers : worker_load(w)
    \/ \E w \in Workers : worker_store(w)
    \/ \E w \in Workers : worker_finalize(w)
    \/ \E w \in Workers : worker_write(w)
    \/ render_return
    \/ update
    \/ script_request
    \/ script_sentinel
    \/ script_read
    \/ script_edit

GeomSpec == GeomLoopInit /\ [][GeomNext]_vars

\* ------------------------------------- the snapshot display during a render
SnapNext ==
    \/ LiveNext
    \/ store_snapshot
    \/ toggle_snapshot
    \/ paintGL

SnapSpec == LiveInit /\ [][SnapNext]_vars

\* --------------------------------------------------- the parameter widgets
WidgetKinds == {"float", "vector", "int", "int_log", "color", "bool", "string"}

PairKinds == {"float", "int", "int_log"}

\* the Qt objects of one PARAMETER: the PARAMETER itself ("this") and its
\* editors; for the colour parameter the value of "this" is m_color
Objects(kind) ==
    CASE kind \in PairKinds -> {"this", "sb", "sl"}
      [] kind = "vector"    -> {"this", "sb0", "sb1"}
      [] kind = "color"     -> {"this"}
      [] OTHER              -> {"this", "cb"}

\* "min" and "max" of the descriptor; floats in units of 0.001 (setDecimals(3))
SbMin(kind) == IF kind = "int_log" THEN 1 ELSE 0

SbMax(kind) ==
    CASE kind = "float"   -> FloatMax
      [] kind = "int_log" -> 2 ^ MaxWidgetValue
      [] OTHER            -> MaxWidgetValue

Clamp(x, lo, hi) == IF x < lo THEN lo ELSE IF x > hi THEN hi ELSE x

RECURSIVE to_log(_, _)
to_log(value, imin) ==
    IF value > imin THEN 1 + to_log(value \div 2, imin) ELSE 0

from_log(value, imin, imax) == Min(imin * (2 ^ value), imax)

SlMin(kind) == IF kind = "int_log" THEN 0 ELSE SbMin(kind)

SlMax(kind) ==
    CASE kind = "float"   -> SliderMax
      [] kind = "int_log" -> to_log(SbMax(kind), SbMin(kind))
      [] OTHER            -> SbMax(kind)

\* the slider position written for a spin box value
ToSlider(kind, x) ==
    CASE kind = "float" ->
             (SlMax(kind) * (x - SbMin(kind))) \div (SbMax(kind) - SbMin(kind))
      [] kind = "int_log" -> to_log(x, SbMin(kind))
      [] OTHER -> x

\* the spin box value written for a slider position
FromSlider(kind, pos) ==
    CASE kind = "float" ->
             SbMin(kind) + (pos * (SbMax(kind) - SbMin(kind))) \div SlMax(kind)
      [] kind = "int_log" -> from_log(pos, SbMin(kind), SbMax(kind))
      [] OTHER -> pos

\* QColor::setRgbF on components 0.0 or 1.0: 16-bit channels
setRgbF(value) == [i \in 1..3 |-> value[i] * 65535]

\* values a caller or the user can hand to a widget
Inputs(kind) ==
    CASE kind = "float"   -> {k * FloatStep : k \in 0..MaxWidgetValue}
      [] kind = "int"     -> 0..MaxWidgetValue
      [] kind = "int_log" -> 1..(2 ^ MaxWidgetValue)
      [] kind = "vector"  -> (0..1) \X (0..1)
      [] kind = "color"   -> (0..1) \X (0..1) \X (0..1)
      [] kind = "bool"    -> BOOLEAN
      [] kind = "string"  -> 0..1

SliderInputs(kind) ==
    IF kind = "float" THEN {k * SliderStep : k \in 0..MaxWidgetValue}
    ELSE SlMin(kind)..SlMax(kind)

\* a signal block that blocks nothing
blockSignals_off(st, obj, flag) == st

\* QObject::blockSignals as the setValue functions and the slots call it
blockSignals(st, obj, flag) == [st EXCEPT !.b[obj] = flag]

\* the signal PARAMETER::valueChanged: delivered unless "this" is blocked
valueChanged(st) ==
    IF st.b["this"] THEN st ELSE [st EXCEPT !.e = @ + 1]

\* QSpinBox / QDoubleSpinBox::setValue and QSlider::setValue with the
\* connections made by the PARAMETER_FLOAT and PARAMETER_INT constructors
RECURSIVE sb_setValue(_, _, _)
RECURSIVE sl_setValue(_, _, _)
sb_setValue(st, kind, x) ==
    LET c  == Clamp(x, SbMin(kind), SbMax(kind))
        s1 == [st EXCEPT !.v["sb"] = c]
    IN  IF st.v["sb"] = c \/ st.b["sb"] THEN s1
        ELSE LET s2 == valueChanged(s1)
                 s3 == blockSignals(s2, "sl", TRUE)
                 s4 == sl_setValue(s3, kind, ToSlider(kind, c))
             IN  blockSignals(s4, "sl", FALSE)

sl_setValue(st, kind, pos) ==
    LET c  == Clamp(pos, SlMin(kind), SlMax(kind))
        s1 == [st EXCEPT !.v["sl"] = c]
    IN  IF st.v["sl"] = c \/ st.b["sl"] THEN s1
        ELSE sb_setValue(s1, kind, FromSlider(kind, c))

\* one spin box of PARAMETER_VEC: its valueChanged is connected to the lambda
\* that emits PARAMETER::valueChanged with the whole vector
vec_setValue(st, obj, x) ==
    LET s1 == [st EXCEPT !.v[obj] = x]
    IN  IF st.v[obj] = x \/ st.b[obj] THEN s1 ELSE valueChanged(s1)

\* PARAMETER_COLOR::setColor
setColor(st, color) ==
    IF color # st.v["this"]
    THEN valueChanged([st EXCEPT !.v["this"] = color])
    ELSE st

\* QCheckBox::setCheckState and the user's choice in the QComboBox: the
\* change signal is connected to a lambda emitting PARAMETER::valueChanged
cb_set(st, x) ==
    LET s1 == [st EXCEPT !.v["cb"] = x]
    IN  IF st.v["cb"] = x \/ st.b["cb"] THEN s1 ELSE valueChanged(s1)

\* PARAMETER_FLOAT::setValue; PARAMETER_INT::setValue has the same steps, with
\* the slider position of its scale (ToSlider)
PARAMETER_FLOAT_setValue(st, kind, def) ==
    LET s1 == blockSignals(st, "sb", TRUE)
        s2 == blockSignals(s1, "sl", TRUE)
        s3 == sb_setValue(s2, kind, def)
        s4 == sl_setValue(s3, kind, ToSlider(kind, def))
        s5 == blockSignals(s4, "sb", FALSE)
    IN  blockSignals(s5, "sl", FALSE)

PARAMETER_VEC_setValue(st, value) ==
    LET a1 == blockSignals(st, "sb0", TRUE)
        a2 == vec_setValue(a1, "sb0", value[1])
        a3 == blockSignals(a2, "sb0", FALSE)
        b1 == blockSignals(a3, "sb1", TRUE)
        b2 == vec_setValue(b1, "sb1", value[2])
    IN  blockSignals(b2, "sb1", FALSE)

PARAMETER_COLOR_setValue(st, value) ==
    LET s1 == blockSignals(st, "this", TRUE)
        s2 == setColor(s1, setRgbF(value))
    IN  blockSignals(s2, "this", FALSE)

PARAMETER_BOOL_setValue(st, def) ==
    LET s1 == blockSignals(st, "cb", TRUE)
        s2 == cb_set(s1, IF def THEN 2 ELSE 0)
    IN  blockSignals(s2, "cb", FALSE)

\* the combo box is not set (TODO in the source)
PARAMETER_STRING_setValue(st, def) ==
    LET s1 == blockSignals(st, "cb", TRUE)
    IN  blockSignals(s1, "cb", FALSE)

\* the widget as a record, with the emission count of the call starting at 0
Widget == [v |-> p_value, b |-> p_blocked, e |-> 0]

WidgetStep(op, next) ==
    /\ p_value' = next.v
    /\ p_blocked' = next.b
    /\ p_emitted' = next.e
    /\ p_last' = [kind |-> p_last.kind, op |-> op, changed |-> next.v # p_value]
    /\ UNCHANGED <<viewVars, osVars, rendVars, gridVars, sampVars, libVars>>

\* PARAMETER::create_parameter: one widget of the kind of its descriptor
WidgetInit ==
    /\ ViewInit /\ OsInit /\ RendInit /\ GridIdle /\ SampIdle /\ LibIdle
    /\ \E kind \in WidgetKinds :
        /\ p_last = [kind |-> kind, op |-> "create_parameter", changed |-> FALSE]
        /\ p_value = [o \in Objects(kind) |->
                         IF kind = "color" THEN setRgbF(<<0, 0, 0>>)
                         ELSE IF o = "this" THEN 0
                         ELSE IF o = "sb" THEN SbMin(kind)
                         ELSE IF o = "sl" THEN SlMin(kind)
                         ELSE 0]
        /\ p_blocked = [o \in Objects(kind) |-> FALSE]
        /\ p_emitted = 0

\* PARAMETER::setValue called by the program (MAIN_WINDOW on New and Open)
setValue ==
    \E def \in Inputs(p_last.kind) :
        WidgetStep("setValue",
            CASE p_last.kind \in PairKinds -> PARAMETER_FLOAT_setValue(Widget, p_last.kind, def)
              [] p_last.kind = "vector" -> PARAMETER_VEC_setValue(Widget, def)
              [] p_last.kind = "color"  -> PARAMETER_COLOR_setValue(Widget, def)
              [] p_last.kind = "bool"   -> PARAMETER_BOOL_setValue(Widget, def)
              [] p_last.kind = "string" -> PARAMETER_STRING_setValue(Widget, def))

\* the user edits the widget: types into a spin box, picks a colour in the
\* dialog, clicks the check box or chooses an entry of the combo box
user_edit ==
    \E x \in Inputs(p_last.kind) :
        WidgetStep("edit",
            CASE p_last.kind \in PairKinds -> sb_setValue(Widget, p_last.kind, x)
              [] p_last.kind = "vector" ->
                     vec_setValue(vec_setValue(Widget, "sb0", x[1]), "sb1", x[2])
              [] p_last.kind = "color"  -> setColor(Widget, setRgbF(x))
              [] p_last.kind = "bool"   -> cb_set(Widget, IF x THEN 2 ELSE 0)
              [] p_last.kind = "string" -> cb_set(Widget, x))

\* the user drags the slider of a float or int parameter
user_slide ==
    /\ p_last.kind \in PairKinds
    /\ \E pos \in SliderInputs(p_last.kind) :
        WidgetStep("slide", sl_setValue(Widget, p_last.kind, pos))

WidgetNext ==
    \/ setValue
    \/ user_edit
    \/ user_slide

WidgetSpec == WidgetInit /\ [][WidgetNext]_vars

\* ------------------------------------------------- primary-ray sample offsets
\* 2^WordBits
WordSize == 2 ^ WordBits

\* bitwise exclusive or of two words of n bits
RECURSIVE Xor(_, _, _)
Xor(a, b, n) ==
    IF n = 0 THEN 0
    ELSE 2 * Xor(a \div 2, b \div 2, n - 1) + ((a + b) % 2)

\* the multiplier 0xa5a573a5 of Rand32::init, low 16 bits
InitMul == 29605

\* a * b kept to the word, without leaving the integers
MulMod(a, b) ==
    ((a * (b % 256)) + ((a * (b \div 256)) % WordSize) * 256) % WordSize

\* Imath::Rand32::init
RandInit(seed) ==
    Xor(MulMod(seed % WordSize, InitMul % WordSize), 1515870810 % WordSize, WordBits)

\* Imath::Rand32::next, state = 1664525 * state + 1013904223
RandNext(state) ==
    (MulMod(1664525 % WordSize, state) + (1013904223 % WordSize)) % WordSize

\* k calls of next() as one affine map <<a, c>>: state -> a * state + c,
\* composed by halving k
RECURSIVE RandJump(_)
RandJump(k) ==
    IF k = 0 THEN <<1, 0>>
    ELSE LET h  == RandJump(k \div 2)
             a2 == MulMod(h[1], h[1])
             c2 == (MulMod(h[1], h[2]) + h[2]) % WordSize
         IN  IF k % 2 = 0 THEN <<a2, c2>>
             ELSE <<MulMod(1664525 % WordSize, a2), RandNext(c2)>>

\* the value of the k-th nexti() of a generator constructed with seed
RandAt(seed, k) ==
    LET j == RandJump(k)
    IN  (MulMod(j[1], RandInit(seed)) + j[2]) % WordSize

p_hash_size == 2 ^ p_hash_bits

\* SCENE::fill_sample_caches: seeds[i] is the (i+1)-th nexti() of pixel_rand,
\* p_hash[i] the pair of the next two
fill_sample_caches(seed) ==
    [seeds  |-> [i \in 0..15 |-> RandAt(seed, i + 1)],
     p_hash |-> [i \in 0..(p_hash_size * p_hash_size - 1) |->
                    <<RandAt(seed, 16 + 2 * i + 1), RandAt(seed, 16 + 2 * i + 2)>>]]

\* the caches of a render, for each value of json_scene["sampling_seed"]
SampleCaches == [seed \in 0..MaxSeed |-> fill_sample_caches(seed)]

\* SCENE::p_hash_eval: x & p_hash_mask is x % p_hash_size for x >= 0
p_hash_eval(seed, x, y) ==
    SampleCaches[seed].p_hash[(y % p_hash_size) * p_hash_size + (x % p_hash_size)]

\* vandercorput: the bits of the word in reverse order
RECURSIVE vandercorput_loop(_, _, _)
vandercorput_loop(n, bits, acc) ==
    IF bits = 0 THEN acc
    ELSE vandercorput_loop(n \div 2, bits - 1, 2 * acc + (n % 2))

vandercorput(n) == vandercorput_loop(n, WordBits, 0)

\* sobol2: for (v = 1 << 31; n != 0; n >>= 1, v ^= v >> 1) if (n & 1) x ^= v;
RECURSIVE sobol2_loop(_, _, _)
sobol2_loop(n, v, x) ==
    IF n = 0 THEN x
    ELSE sobol2_loop(n \div 2, Xor(v, v \div 2, WordBits),
                     IF n % 2 = 1 THEN Xor(x, v, WordBits) ELSE x)

sobol2(n) == sobol2_loop(n, WordSize \div 2, 0)

\* sample_to_float: n ^= seed; return n / 2^32, kept as the numerator
sample_to_float(n, seed) == Xor(n, seed, WordBits)

\* a scrambling seed chosen by the worker slot of the request
SampleSeed_perslot(seed, tile, axis) == SampleCaches[seed].seeds[axis + tile.tid]

\* the scrambling seeds of render_tile: seeds[0] for x and seeds[1] for y
SampleSeed(seed, tile, axis) == SampleCaches[seed].seeds[axis]

\* render_tile, "Primary rays": the sample offset of every pixel of a tile
PrimaryOffsets(seed, tile) ==
    {LET px == x + tile.xoff
         py == y + tile.yoff
         h  == p_hash_eval(seed, px, py)
         isx == Xor(h[1], vandercorput(tile.sidx), WordBits)
         isy == Xor(h[2], sobol2(tile.sidx), WordBits)
     IN  [px |-> px, py |-> py, sidx |-> tile.sidx,
          sx |-> sample_to_float(isx, SampleSeed(seed, tile, 0)),
          sy |-> sample_to_float(isy, SampleSeed(seed, tile, 1))] :
        x \in 0..(tile.xsize - 1), y \in 0..(tile.ysize - 1)}

\* two renders of one scene that differ in tile size and thread count
SampInit ==
    /\ ViewInit /\ OsInit /\ RendInit /\ GridIdle /\ ParamIdle /\ LibIdle
    /\ s_seed \in 0..MaxSeed
    /\ \E w \in 1..SampMaxRes, h \in 1..SampMaxYRes, n \in 1..MaxSamples :
        s_res \in [1..2 -> {[xres |-> w, yres |-> h, tres |-> t, nsamples |-> n,
                              nthreads |-> k] :
                                t \in 1..SampMaxTres, k \in 1..MaxThreads}]
    /\ s_tile = [run \in 1..2 |-> TILE0]
    /\ s_offs = [run \in 1..2 |-> {}]

\* a worker task of one of the renders serves a request: any tile of the
\* grid, any sample, any worker slot, in any order
sample_tile ==
    \E run \in 1..2 :
        LET res  == s_res[run]
            grid == TileGrid(res)
        IN  \E g \in 1..Len(grid), sidx \in 0..(res.nsamples - 1),
               tid \in 0..(res.nthreads - 1) :
                LET tile == [grid[g] EXCEPT !.sidx = sidx, !.tid = tid]
                IN  /\ s_tile' = [s_tile EXCEPT ![run] = tile]
                    /\ s_offs' = [s_offs EXCEPT ![run] = PrimaryOffsets(s_seed, tile)]
                    /\ UNCHANGED <<s_seed, s_res, viewVars, osVars, rendVars,
                                   gridVars, paramVars, libVars>>

SampleNext == sample_tile

SampleSpec == SampInit /\ [][SampleNext]_vars

\* ------------------------------------------- shading: BRDF::mis_sample
\* The shaders BRDF::create_shaders builds: the leaf shader takes
\* leaf_transmit (k/TMax), the water shader is reflective.
Shaders ==
    {[name |-> "default", m_transmit_ratio |-> 0, m_reflect |-> FALSE],
     [name |-> "branch",  m_transmit_ratio |-> 0, m_reflect |-> FALSE],
     [name |-> "water",   m_transmit_ratio |-> 0, m_reflect |-> TRUE]}
    \cup {[name |-> "leaf", m_transmit_ratio |-> t, m_reflect |-> FALSE] : t \in 0..TMax}

\* What the sample sy does in BRDF::sample.  sample_to_float returns a float
\* in [0, 1], 1.0 included ((float)n rounds up for n near 2^32).  lobe is the
\* outcome of `sy < m_transmit_ratio` and rz (k/RzMax) is sqrtf(1 - sy) after
\* sy is rescaled: positive in the back lobe (sy/t < 1), 0 in the front lobe
\* when sy = 1.0, and not a number when sy = 1.0 and t = 1 ((sy-t)/(1-t) = 0/0).
BrdfSamples(brdf) ==
    LET t == brdf.m_transmit_ratio
    IN  {[lobe |-> "back", rz |-> rz] : rz \in IF t > 0 THEN 1..RzMax ELSE {}}
        \cup {[lobe |-> "front", rz |-> rz] : rz \in IF t < TMax THEN 0..RzMax ELSE {NaN}}

\* float multiplication with a NaN operand
Mul(a, b) == IF a = NaN \/ b = NaN THEN NaN ELSE a * b

\* BRDF::sample: the pdf it returns (clr is m_clr * pdf)
BRDF_sample(brdf, s) ==
    IF brdf.m_reflect THEN ReflectPdf
    ELSE IF s.lobe = "back" THEN Mul(Mul(2, s.rz), brdf.m_transmit_ratio)
    ELSE Mul(Mul(2, s.rz), TMax - brdf.m_transmit_ratio)

\* BRDF::evaluate: the pdf of the direction whose cosine to n is rz/RzMax
BRDF_evaluate(brdf, rz) ==
    IF brdf.m_reflect THEN 0
    ELSE IF rz > 0 THEN 2 * rz * (TMax - brdf.m_transmit_ratio)
    ELSE (0 - 2) * rz * brdf.m_transmit_ratio

\* SUN_SKY_LIGHT::sample: only the sun is sampled
LIGHT_sample == SunPdf

\* SUN_SKY_LIGHT::evaluate: inside the sun's disc or the sky
LIGHT_evaluate(in_sun) == IF in_sun THEN SunPdf ELSE 0

\* float addition with a NaN operand
Add(a, b) == IF a = NaN \/ b = NaN THEN NaN ELSE a + b

\* float division, kept as a fraction: den = 0 with num = 0 is not a number
\* (0/0, or a NaN operand), den = 0 with num > 0 is infinity
Div(num, den) ==
    IF num = NaN \/ den = NaN THEN [num |-> 0, den |-> 0]
    ELSE [num |-> num, den |-> den]

\* the guard removed: the weight is computed for every pdf
MisGuard_none(pdf) == TRUE
\* `if (b_pdf > 0)`, `if (l_pdf > 0)`: false for 0 and for NaN
MisGuard(pdf) == pdf # NaN /\ pdf > 0

\* One strategy of mis_sample.  The colour arrives as m_clr * own and is
\* multiplied by other_clr * own / (own*own + other*other) when the guard
\* holds: scale is the factor that ends up on m_clr * other_clr, the weight
\* of the power heuristic; without the multiplication the colour stays
\* m_clr * own.
MisStrategy(own, other) ==
    IF MisGuard(own)
    THEN [computed |-> TRUE,
          scale |-> Div(Mul(own, own), Add(Mul(own, own), other * other))]
    ELSE [computed |-> FALSE, scale |-> Div(own, 1)]

\* BRDF::mis_sample for a shader, the BRDF sample s, whether b_dir falls in
\* the sun's disc, and the cosine of the light sample l_dir to n
mis_sample(brdf, s, b_in_sun, l_rz) ==
    LET b_pdf  == BRDF_sample(brdf, s)
        l_pdf  == LIGHT_sample
        bl_pdf == BRDF_evaluate(brdf, l_rz)
        lb_pdf == LIGHT_evaluate(b_in_sun)
    IN  [b_pdf |-> b_pdf, l_pdf |-> l_pdf, bl_pdf |-> bl_pdf, lb_pdf |-> lb_pdf,
         b |-> MisStrategy(b_pdf, lb_pdf),
         l |-> MisStrategy(l_pdf, bl_pdf)]

MisInputs ==
    {[brdf |-> brdf, s |-> s, b_in_sun |-> b, l_rz |-> rz] :
        brdf \in Shaders, s \in UNION {BrdfSamples(x) : x \in Shaders},
        b \in BOOLEAN, rz \in (0 - RzMax)..RzMax}

MisInit ==
    /\ ViewInit /\ OsInit /\ RendInit /\ GridIdle /\ ParamIdle /\ SampIdle /\ TreeIdle
    /\ SlotIdle
    /\ mis_in \in {i \in MisInputs : i.s \in BrdfSamples(i.brdf)}
    /\ mis_out = << >>

\* render_tile shades one hit with mis_sample
shade_hit ==
    /\ mis_out = << >>
    /\ mis_out' = mis_sample(mis_in.brdf, mis_in.s, mis_in.b_in_sun, mis_in.l_rz)
    /\ UNCHANGED <<mis_in, viewVars, osVars, rendVars, gridVars, paramVars, sampVars,
                   treeVars, slotVars>>

MisNext == shade_hit

MisSpec == MisInit /\ [][MisNext]_vars

\* ------------------------------------------------- the tree generator
\* pow(10.0, levels) for levels in tenths, rounded to LcUnit-ths
Pow10 == <<16, 20, 25, 32, 40, 51, 64, 80, 101, 127, 160, 201, 254>>

\* float rounding of the quotient n / d to the nearest representable value
Round(n, d) == (2 * n + d) \div (2 * d)

\* the published ranges: branch_ratio in [0.001, 0.5], variance in [0, 1]
TreeInputs ==
    [levels : 0..MaxLevels, branch_ratio : 1..(BrDen \div 2), variance : 0..VarDen]

\* branch_ratio *= lrand.nextf(1.0F - branch_ratio_variance, 1.0F): the
\* generator is seeded per call, so any value of the interval can come out
Ratios(in) ==
    {j \in 0..in.branch_ratio : j * VarDen >= in.branch_ratio * (VarDen - in.variance)}

\* More calls than twice the leaf count (rounded up) are never started: the
\* bound that keeps a recursion that does not end finite
CallBound(in) == 2 * ((Pow10[in.levels + 1] + LcUnit - 1) \div LcUnit) + 1

\* `if (branch_ratio * leaf_count <= 1.0F)`
Terminal(br, leaf_count) == br * leaf_count <= BrDen * LcUnit

\* the larger child handed the whole leaf count of its parent
ChildLeaves_kept(br, leaf_count) ==
    <<Round(leaf_count * br, BrDen), leaf_count>>
\* float l[2] = {leaf_count*branch_ratio, leaf_count*(1.0F-branch_ratio)}
ChildLeaves(br, leaf_count) ==
    <<Round(leaf_count * br, BrDen), Round(leaf_count * (BrDen - br), BrDen)>>

\* new GROUP_NODE, new POLY_CURVE (m_leaf_set counts the assignments of the
\* leaf marker m_leaf_radius made by construct)
GROUP_NODE0 == [kind |-> "group", m_nodes |-> << >>, m_pos_r |-> << >>, m_leaf_set |-> 0]
POLY_CURVE0 == [kind |-> "curve", m_nodes |-> << >>, m_pos_r |-> << >>, m_leaf_set |-> 0]

\* GROUP_NODE::add_child
add_child(nodes, parent, child) ==
    [nodes EXCEPT ![parent].m_nodes = Append(@, child)]

\* the vertex is not stored
push_vertex_dropped(nodes, curve, v) == nodes
\* trunk.m_pos_r.push_back
push_vertex(nodes, curve, v) ==
    [nodes EXCEPT ![curve].m_pos_r = Append(@, v)]

Frame(op, local, trunk, leaf_count, c0, c1) ==
    [op |-> op, local |-> local, trunk |-> trunk, leaf_count |-> leaf_count,
     c0 |-> c0, c1 |-> c1]

TreeInit ==
    /\ ViewInit /\ OsInit /\ RendInit /\ GridIdle /\ ParamIdle /\ SampIdle /\ MisIdle
    /\ SlotIdle
    /\ t_in \in TreeInputs
    /\ t_pc = "build"
    /\ t_stack = << >>
    /\ t_nodes = <<GROUP_NODE0>>        \* m_root
    /\ t_calls = 0
    /\ t_geom = << >>

treeRest == <<viewVars, osVars, rendVars, gridVars, paramVars, sampVars, misVars,
              slotVars>>

\* TREE::build up to its call of construct
build_enter ==
    /\ t_pc = "build"
    /\ t_nodes' = Append(t_nodes, POLY_CURVE0)
    /\ t_stack' = <<Frame("construct", 1, Len(t_nodes) + 1, Pow10[t_in.levels + 1], 0, 0),
                    Frame("root", 1, Len(t_nodes) + 1, 0, 0, 0)>>
    /\ t_pc' = "construct"
    /\ UNCHANGED <<t_in, t_calls, t_geom, treeRest>>

\* TREE::construct from its entry to its first recursive call or its return
construct_enter ==
    /\ t_pc = "construct"
    /\ t_stack # << >> /\ Head(t_stack).op = "construct"
    /\ t_calls < CallBound(t_in)
    /\ LET f     == Head(t_stack)
           based == push_vertex(t_nodes, f.trunk, "joint")
       IN  \E br \in Ratios(t_in) :
             IF Terminal(br, f.leaf_count)
             THEN /\ t_nodes' = [push_vertex(based, f.trunk, "tip")
                                    EXCEPT ![f.trunk].m_leaf_set = @ + 1]
                  /\ t_stack' = Tail(t_stack)
             ELSE LET l  == ChildLeaves(br, f.leaf_count)
                      c0 == Len(t_nodes) + 1
                      b  == Len(t_nodes) + 2
                  IN  /\ t_nodes' = based \o <<GROUP_NODE0, POLY_CURVE0>>
                      /\ t_stack' = <<Frame("construct", c0, b, l[1], 0, 0),
                                      Frame("second", f.local, f.trunk, l[2], c0, b)>>
                                    \o Tail(t_stack)
    /\ t_calls' = t_calls + 1
    /\ UNCHANGED <<t_in, t_pc, t_geom, treeRest>>

\* TREE::construct after the smaller child returned: the branch is attached
\* and the larger child continues the trunk
construct_second ==
    /\ t_pc = "construct"
    /\ t_stack # << >> /\ Head(t_stack).op = "second"
    /\ LET f  == Head(t_stack)
           c1 == Len(t_nodes) + 1
       IN  \* children[0]->add_child(branch): the frame keeps the branch in c1
           /\ t_nodes' = Append(add_child(t_nodes, f.c0, f.c1), GROUP_NODE0)
           /\ t_stack' = <<Frame("construct", c1, f.trunk, f.leaf_count, 0, 0),
                           Frame("angles", f.local, f.trunk, 0, f.c0, c1)>>
                         \o Tail(t_stack)
    /\ UNCHANGED <<t_in, t_pc, t_calls, t_geom, treeRest>>

\* TREE::construct after both children returned: the second pass adds them
\* to local (their transforms move vertices and do not change any count)
construct_return ==
    /\ t_pc = "construct"
    /\ t_stack # << >> /\ Head(t_stack).op = "angles"
    /\ LET f == Head(t_stack)
       IN  /\ t_nodes' = add_child(add_child(t_nodes, f.local, f.c0), f.local, f.c1)
           /\ t_stack' = Tail(t_stack)
    /\ UNCHANGED <<t_in, t_pc, t_calls, t_geom, treeRest>>

\* TREE::build after construct returned
build_return ==
    /\ t_pc = "construct"
    /\ t_stack # << >> /\ Head(t_stack).op = "root"
    /\ t_nodes' = add_child(t_nodes, 1, Head(t_stack).trunk)
    /\ t_stack' = Tail(t_stack)
    /\ t_pc' = "built"
    /\ UNCHANGED <<t_in, t_calls, t_geom, treeRest>>

\* NODE::geometry_size: <<curves, points>> below a node
RECURSIVE geometry_size(_, _)
RECURSIVE geometry_size_kids(_, _, _)
geometry_size_kids(nodes, kids, i) ==
    IF i > Len(kids) THEN <<0, 0>>
    ELSE LET a == geometry_size(nodes, kids[i])
             b == geometry_size_kids(nodes, kids, i + 1)
         IN  <<a[1] + b[1], a[2] + b[2]>>
geometry_size(nodes, n) ==
    IF nodes[n].kind = "curve" THEN <<1, Len(nodes[n].m_pos_r)>>
    ELSE geometry_size_kids(nodes, nodes[n].m_nodes, 1)

\* POLY_CURVE::branch_geometry: one vertex per point and one index per point
\* but the last (`i < m_pos_r.size()-1` is an unsigned comparison: it holds
\* for no i when the polyline is empty); <<vidx, iidx>> below a node
RECURSIVE branch_geometry(_, _)
RECURSIVE branch_geometry_kids(_, _, _)
branch_geometry_kids(nodes, kids, i) ==
    IF i > Len(kids) THEN <<0, 0>>
    ELSE LET a == branch_geometry(nodes, kids[i])
             b == branch_geometry_kids(nodes, kids, i + 1)
         IN  <<a[1] + b[1], a[2] + b[2]>>
branch_geometry(nodes, n) ==
    IF nodes[n].kind = "curve"
    THEN LET size == Len(nodes[n].m_pos_r)
         IN  <<size, IF size = 0 THEN 0 ELSE size - 1>>
    ELSE branch_geometry_kids(nodes, nodes[n].m_nodes, 1)

\* POLY_CURVE::leaf_geometry: one disc per polyline, read from its last two
\* points; <<idx, every read was inside m_pos_r>> below a node
RECURSIVE leaf_geometry(_, _)
RECURSIVE leaf_geometry_kids(_, _, _)
leaf_geometry_kids(nodes, kids, i) ==
    IF i > Len(kids) THEN <<0, TRUE>>
    ELSE LET a == leaf_geometry(nodes, kids[i])
             b == leaf_geometry_kids(nodes, kids, i + 1)
         IN  <<a[1] + b[1], a[2] /\ b[2]>>
leaf_geometry(nodes, n) ==
    IF nodes[n].kind = "curve" THEN <<1, Len(nodes[n].m_pos_r) >= 2>>
    ELSE leaf_geometry_kids(nodes, nodes[n].m_nodes, 1)

\* TREE::embree_geometry with leaves enabled: the counters its three
\* assertions compare
embree_geometry ==
    /\ t_pc = "built"
    /\ LET size   == geometry_size(t_nodes, 1)
           branch == branch_geometry(t_nodes, 1)
           leaf   == leaf_geometry(t_nodes, 1)
       IN  t_geom' = [curve_count |-> size[1], point_count |-> size[2],
                      vidx |-> branch[1], iidx |-> branch[2],
                      idx |-> leaf[1], in_bounds |-> leaf[2]]
    /\ t_pc' = "geometry"
    /\ UNCHANGED <<t_in, t_stack, t_nodes, t_calls, treeRest>>

TreeNext ==
    \/ build_enter \/ construct_enter \/ construct_second \/ construct_return
    \/ build_return \/ embree_geometry

\* build() and embree_geometry() run to completion on one thread
TreeSpec == TreeInit /\ [][TreeNext]_vars /\ WF_vars(TreeNext)

\* =========================================== worker slots of shared memory
\* the scenes whose renders are followed
SlotScenes ==
    {[k \in ParamKeys |->
        CASE k = "res"      -> <<x, y>>
          [] k = "tres"     -> t
          [] k = "nthreads" -> n
          [] k = "samples"  -> s] :
        x \in 1..SlotMaxXRes, y \in 1..SlotMaxYRes, t \in 1..SlotMaxTres,
        n \in 1..SlotMaxThreads, s \in 1..SlotMaxSamples}

\* start_render after init_shm: the tile grid at sample 0 and the nthreads
\* seeding requests
SlotSeed(res) ==
    SeedLoop([tiles |-> TileGrid(res), req |-> << >>, log |-> << >>, killed |-> FALSE],
             0, res.nthreads, res.nsamples, TRUE)

\* the records of a pipe as the set of requests in flight: the worker tasks
\* read them in turn and finish them in any order
Requests(pipe) == {pipe[i] : i \in 1..Len(pipe)}

\* the viewer has read the RES the renderer built and has seeded its requests
SlotInit ==
    /\ ViewInit /\ OsInit /\ RendInit /\ GridIdle /\ ParamIdle /\ SampIdle
    /\ MisIdle /\ TreeIdle
    /\ c_res \in {RenderRes(scene) : scene \in SlotScenes}
    /\ c_tiles = SlotSeed(c_res).tiles
    /\ c_req = Requests(SlotSeed(c_res).req)
    /\ c_done = << >>
    /\ c_written = {} /\ c_read = {}

\* the cells written with the row stride of a full tile
FinalizeCells_stride(tile, res) ==
    { res.tres * res.tres * tile.tid + y * res.tres + x :
        y \in 0..(tile.ysize - 1), x \in 0..(tile.xsize - 1) }

\* render_tile, "Finalize the tile": the cell indices
\* res.tres*res.tres*tile.tid + poff, poff = y*tile.xsize + x, it assigns
FinalizeCells(tile, res) ==
    { res.tres * res.tres * tile.tid + y * tile.xsize + x :
        y \in 0..(tile.ysize - 1), x \in 0..(tile.xsize - 1) }

\* intile_event: the cell indices of the ysize memcpy calls, each of xsize
\* cells from m_shm_data + m_res.tres*m_res.tres*tile.tid + y*tile.xsize
CopyCells(tile, res) ==
    UNION { { res.tres * res.tres * tile.tid + y * tile.xsize + k :
                k \in 0..(tile.xsize - 1) } : y \in 0..(tile.ysize - 1) }

slotRest == <<viewVars, osVars, rendVars, gridVars, paramVars, sampVars, misVars,
              treeVars>>

\* a worker task takes a request, renders it, finalizes its slot and writes
\* the completion; requests in flight complete in any order
slot_finalize ==
    \E tile \in c_req :
        /\ c_req' = c_req \ {tile}
        /\ c_done' = Append(c_done, [tile  |-> tile,
                                     cells |-> FinalizeCells(tile, c_res)])
        /\ UNCHANGED <<c_res, c_tiles, c_written, c_read, slotRest>>

\* intile_event for one completion record: the scan lines are copied out of
\* the slot and send_tile(tile.tid) supplies the next request
slot_copy ==
    /\ c_done # << >>
    /\ LET rec == Head(c_done)
           st  == send_tile([tiles |-> c_tiles, req |-> << >>, log |-> << >>,
                             killed |-> FALSE],
                            ResupplyTid(rec.tile), c_res.nsamples, TRUE)
       IN  /\ c_tiles' = st.tiles
           /\ c_req' = c_req \cup Requests(st.req)
           /\ c_written' = rec.cells
           /\ c_read' = CopyCells(rec.tile, c_res)
    /\ c_done' = Tail(c_done)
    /\ UNCHANGED <<c_res, slotRest>>

SlotNext ==
    \/ slot_finalize
    \/ slot_copy

SlotSpec == SlotInit /\ [][SlotNext]_vars

\* ================================================================== claims
\* a worker task holds a tile from reading its request to acknowledging it
Holding(w) == r_pc = "workers" /\ w_pc[w] \in {"load", "store", "finalize", "write"}

SameSpatialTile(a, b) == a.xoff = b.xoff /\ a.yoff = b.yoff

\* the render the viewer started is still attached (not stopped, not failed)
RenderActive == v_pc = "idle" /\ m_intile_notifier /\ m_child > 0

\* every (spatial tile, sample) unit of the render has been copied out
AllApplied ==
    /\ RenderActive
    /\ m_tiles = << >>
    /\ m_tiles_complete = tile_count(m_res) * m_res.nsamples

RECURSIVE SampleSum(_, _)
SampleSum(ioff, n) == IF n = 0 THEN 0 ELSE SampleSum(ioff, n - 1) + Radiance(ioff, n - 1)

\* C1: no two renderer workers hold requests for the same spatial tile at
\* the same time, so no accumulator pixel has two writers.
C1_OneWorkerPerTile ==
    \A w1, w2 \in Workers :
        (w1 # w2 /\ Holding(w1) /\ Holding(w2)) => ~SameSpatialTile(w_tile[w1], w_tile[w2])

\* C2: once every sample of every tile has been applied, each framebuffer
\* pixel is the sum of its samples divided by the sample count, as finalized
\* for sample index samples-1 over a complete accumulator.
C2_FinalImageIsAverage ==
    AllApplied =>
        \A i \in 1..Len(m_image.data) :
            m_image.data[i] = Packed(SampleSum(i - 1, m_res.nsamples), m_res.nsamples - 1)

IsTile(rec) == "tid" \in DOMAIN rec

CountTid(seq, tid) ==
    Cardinality({i \in 1..Len(seq) : IsTile(seq[i]) /\ seq[i].tid = tid})

\* requests tagged tid that were sent and are not yet copied out by the viewer
Outstanding(tid) ==
    CountTid(reqpipe, tid)
    + Cardinality({w \in Workers : Holding(w) /\ w_tile[w].tid = tid})
    + CountTid(cmplpipe, tid)

\* the shared-memory cells of worker slot tid
SlotCells(tid) ==
    [i \in 0..(m_res.tres * m_res.tres - 1) |-> ShmCell(m_res.tres * m_res.tres * tid + i)]

C1_Reached ==
    \E w1, w2 \in Workers :
        w1 # w2 /\ Holding(w1) /\ Holding(w2) /\ SameSpatialTile(w_tile[w1], w_tile[w2])

\* C3: at most one request per worker id is outstanding, and no shared-memory
\* slot changes while its completion record waits to be copied by the viewer.
C3_OneRequestPerWorkerId ==
    /\ [](\A tid \in Workers : Outstanding(tid) <= 1)
    /\ [][\A tid \in Workers :
            CountTid(cmplpipe, tid) > 0 => SlotCells(tid)' = SlotCells(tid)]_vars

C3_Witness ==
    /\ done_set # {}
    /\ \E tid \in Workers :
        /\ CountTid(cmplpipe, tid) = 1
        /\ \E w \in Workers : w_pc[w] = "finalize" /\ w_tile[w].tid # tid

\* C5: within one render every (tile, sample) pair is sent at most once, every
\* sent sample index is in 0..samples-1, and a spatial tile is absent from the
\* pending queue exactly when its request for sample samples-1 has been sent.
C5_SendOncePerSample ==
    /\ \A i, j \in 1..Len(sent_log) :
        (i # j) => ~(SameSpatialTile(sent_log[i], sent_log[j])
                     /\ sent_log[i].sidx = sent_log[j].sidx)
    /\ \A i \in 1..Len(sent_log) :
        sent_log[i].sidx >= 0 /\ sent_log[i].sidx < m_res.nsamples
    /\ RenderActive =>
        LET grid == TileGrid(m_res)
        IN  \A g \in 1..Len(grid) :
                (\E q \in 1..Len(m_tiles) : SameSpatialTile(m_tiles[q], grid[g]))
                <=> ~(\E i \in 1..Len(sent_log) :
                        /\ SameSpatialTile(sent_log[i], grid[g])
                        /\ sent_log[i].sidx = m_res.nsamples - 1)

C5_Witness ==
    /\ RenderActive
    /\ m_res.nsamples > 1
    /\ m_tiles # << >>
    /\ \E i \in 1..Len(sent_log) : sent_log[i].sidx = m_res.nsamples - 1

\* C7: every resolution record the renderer transmits has
\* nthreads = min(requested nthreads, tile_count), and the seeding loop of
\* start_render sends one request for every worker id 0..nthreads-1.
C7_ThreadsClampedToTiles ==
    /\ \A i \in 1..Len(cmplpipe) :
        ~IsTile(cmplpipe[i]) =>
            /\ cmplpipe[i].nthreads <= tile_count(cmplpipe[i])
            /\ cmplpipe[i].nthreads = Min(m_scene["nthreads"], tile_count(cmplpipe[i]))
    /\ last_op = <<"start_render", "ok">> =>
        /\ m_res.nthreads <= tile_count(m_res)
        /\ Len(sent_log) = m_res.nthreads
        /\ \A i \in 1..Len(sent_log) : sent_log[i].tid = i - 1

C7_Witness ==
    /\ last_op = <<"start_render", "ok">>
    /\ m_scene["nthreads"] > m_res.nthreads
    /\ Len(sent_log) = tile_count(m_res)

\* the state stop_render leaves behind
Stopped ==
    /\ m_child <= 0 /\ alive = {}
    /\ m_shm_data = "null" /\ m_shm_fd = -1
    /\ m_outjson_fd = -1 /\ m_intile_fd = -1 /\ m_outtile_fd = -1
    /\ ~m_intile_notifier
    /\ m_tiles = << >>

\* C9: stop_render leaves no child, mapping, descriptor, callback or pending
\* tile; called with no render attached it changes nothing; it never changes
\* the live framebuffer, the snapshot or the scene map.
C9_StopIdempotent ==
    [][(stop_render \/ keyPressEvent_Escape) =>
        /\ Stopped'
        /\ m_image' = m_image /\ m_snapshot' = m_snapshot /\ m_scene' = m_scene
        /\ m_child <= 0 =>
            UNCHANGED <<v_pc, m_child, m_outjson_fd, m_intile_fd, m_outtile_fd,
                        m_intile_notifier, m_shm_fd, m_shm_data, m_scene, m_res,
                        m_tiles, m_tiles_complete, m_image, m_image_dirty,
                        m_snapshot, m_snapshot_dirty, m_snapshot_active,
                        osVars, rendVars>>]_vars

C9_Witness ==
    /\ last_op = <<"stop_render", "idle">>
    /\ forks > 0
    /\ ~Raster_empty(m_image)
    /\ Stopped

\* C10: at most one renderer child started by the view is alive, and it is
\* the one the view holds in m_child.
C10_OneChildAlive ==
    /\ Cardinality(alive) <= 1
    /\ \A pid \in alive : pid = m_child

C10_Witness == forks > 1 /\ alive = {forks} /\ m_child = forks

\* ceil(a / b) for positive b
Ceil(a, b) == CHOOSE n \in 0..a : n * b >= a /\ (n - 1) * b < a

InTile(px, py, t) ==
    /\ px >= t.xoff /\ px < t.xoff + t.xsize
    /\ py >= t.yoff /\ py < t.yoff + t.ysize

\* C4: the tile grid partitions [0,w) x [0,h): every pixel lies in exactly one
\* tile, every tile has 1 <= xsize,ysize <= t and lies inside the image, and
\* the number of tiles is RES::tile_count() = ceil(w/t) * ceil(h/t).
C4_GridPartitionsImage ==
    g_pc = "built" =>
        /\ \A px \in 0..(g_res.xres - 1), py \in 0..(g_res.yres - 1) :
            Cardinality({i \in 1..Len(g_tiles) : InTile(px, py, g_tiles[i])}) = 1
        /\ \A i \in 1..Len(g_tiles) :
            /\ g_tiles[i].xsize >= 1 /\ g_tiles[i].xsize <= g_res.tres
            /\ g_tiles[i].ysize >= 1 /\ g_tiles[i].ysize <= g_res.tres
            /\ g_tiles[i].xoff >= 0 /\ g_tiles[i].xoff + g_tiles[i].xsize <= g_res.xres
            /\ g_tiles[i].yoff >= 0 /\ g_tiles[i].yoff + g_tiles[i].ysize <= g_res.yres
        /\ Len(g_tiles) = tile_count(g_res)
        /\ tile_count(g_res) = Ceil(g_res.xres, g_res.tres) * Ceil(g_res.yres, g_res.tres)

C4_Witness ==
    /\ g_pc = "built"
    /\ g_res.xres % g_res.tres # 0 /\ g_res.yres % g_res.tres # 0
    /\ g_res.xres > g_res.tres /\ g_res.yres > g_res.tres
    /\ g_tiles[Len(g_tiles)].xsize < g_res.tres
    /\ g_tiles[Len(g_tiles)].ysize < g_res.tres

\* C8: a render() remaps the segment exactly when its computed size differs
\* from the size currently mapped, leaves mapping and segment untouched
\* otherwise, and after a successful setup the mapped size is the computed size.
C8_RemapIffSizeChanges ==
    [][(r_pc = "render" /\ r_pc' \in {"write_res", "update"}) =>
        LET size == shm_size(RenderRes(json_scene))
        IN  /\ size = map_len =>
                /\ r_pc' = "write_res"
                /\ UNCHANGED <<m_shared_data, map_len, seg_size, seg_data>>
            /\ size # map_len =>
                \/ r_pc' = "update" /\ rval' = 1 /\ map_len' = 0
                \/ /\ r_pc' = "write_res"
                   /\ m_shared_data' > 0 /\ m_shared_data' # m_shared_data
            /\ r_pc' = "write_res" =>
                /\ map_len' = size /\ seg_size' = size /\ m_shm_size' = size
                /\ m_shared_data' > 0]_vars

\* a later render that kept the mapping although a parameter was edited, in a
\* process that has also remapped
C8_Witness ==
    /\ r_pc = "write_res"
    /\ renders = 3
    /\ m_shared_data = 2
    /\ map_len = shm_size(r_res)

RenderUnits ==
    LET grid == TileGrid(m_res)
    IN  {<<grid[g].xoff, grid[g].yoff, sidx>> :
            g \in 1..Len(grid), sidx \in 0..(m_res.nsamples - 1)}

\* the render is complete: queue empty, every unit sent and completed once
RenderDone ==
    /\ AllApplied
    /\ Len(sent_log) = tile_count(m_res) * m_res.nsamples
    /\ {<<sent_log[i].xoff, sent_log[i].yoff, sent_log[i].sidx>> :
            i \in 1..Len(sent_log)} = RenderUnits
    /\ done_set = RenderUnits

\* C6: a render whose workers keep completing and that is not stopped ends
\* with the queue empty, every (tile, sample) unit sent and completed exactly
\* once and the completed-unit counter at tile_count * samples, which it
\* never exceeds.
C6_RenderCompletes ==
    /\ [](m_res.tres > 0 => m_tiles_complete <= tile_count(m_res) * m_res.nsamples)
    /\ RenderActive ~> RenderDone

C6_Witness ==
    /\ RenderDone
    /\ m_res.nsamples > 1 /\ tile_count(m_res) > 1 /\ m_res.nthreads > 1

\* the outcomes of start_render in which a setup step failed
SetupFailures ==
    {"pipe failed", "fork failed", "write failed", "read failed",
     "shm_open failed", "mmap failed"}

\* start_render has returned false in the viewer process
ReturnedFalse == v_pc = "idle" /\ last_op[2] \in SetupFailures

\* execvp failed in the forked child, which goes on as a copy of the viewer
ExecFailed == r_pc = "clone"

\* C11: a failed setup step of start_render aborts the attempt: the call
\* returns false in the viewer process, the readiness notifier is not created
\* and no tile request is written. A failed execvp is one of the setup steps,
\* so it too must lead to the viewer's call returning false.
C11_SetupFailureAborts ==
    /\ [](ReturnedFalse => ~m_intile_notifier /\ sent_log = << >>)
    /\ [](ExecFailed => ~m_intile_notifier /\ sent_log = << >>)
    /\ (ExecFailed ~> ReturnedFalse)

\* the part of C11 that holds: no failed attempt registers the notifier or
\* sends a tile request
C11_FailureSendsNothing ==
    (ReturnedFalse \/ ExecFailed) => ~m_intile_notifier /\ sent_log = << >>

\* the viewer is left inside the blocking read of the resolution record
C11_ViewerBlocked == ExecFailed /\ v_pc = "wait_res" /\ cmplpipe = << >>

\* the read that ends intile_event's loop returned 0: every record has been
\* consumed and the renderer no longer holds the write end
ZeroRead ==
    intile_event /\ m_child \notin alive /\ cmplpipe' = << >> /\ v_pc' = "idle"

\* the read that ends intile_event's loop failed with an error other than
\* EAGAIN / EWOULDBLOCK
OtherReadError == intile_event /\ last_op' = <<"intile_event", "error">>

\* C12: a read of zero bytes on the completion pipe leaves the viewer in the
\* state stop_render establishes, and a stopped viewer writes no tile request
\* (the log of requests only restarts empty with the next start); a read that
\* fails with another error leaves the child, the descriptors, the mapping and
\* the notifier as they were, does not touch the queue beyond the records
\* already handled, and the notifier stays armed on the unread records.
C12_EofStopsErrorContinues ==
    [][/\ ZeroRead => Stopped'
       /\ (Stopped /\ v_pc = "idle") => (sent_log' = sent_log \/ sent_log' = << >>)
       /\ OtherReadError =>
            /\ UNCHANGED <<m_child, m_outjson_fd, m_intile_fd, m_outtile_fd,
                           m_shm_fd, m_shm_data, m_intile_notifier, alive>>
            /\ m_intile_notifier' /\ v_pc' = "idle" /\ cmplpipe' # << >>
            /\ cmplpipe' = cmplpipe =>
                 (m_tiles' = m_tiles /\ sent_log' = sent_log /\ reqpipe' = reqpipe)]_vars

\* the renderer exited in the middle of a render: completions had been copied
\* out, requests had been sent, and the zero-byte read stopped the viewer
C12_Witness ==
    /\ last_op = <<"intile_event", "eof">>
    /\ Stopped
    /\ done_set # {} /\ sent_log # << >>
    /\ m_tiles_complete < tile_count(m_res) * m_res.nsamples

\* the scene map differs from the old one exactly by  name |-> value
Stored(old, new, name, value) ==
    /\ DOMAIN new = DOMAIN old \cup {name}
    /\ new[name] = value
    /\ \A k \in DOMAIN old \ {name} : new[k] = old[k]

\* C13: set_parameter stores the value under the name in m_scene in every
\* case. With a non-empty live framebuffer it goes through stop_render (the
\* attached child is killed) and start_render (a fresh child is forked unless
\* pipe() or fork() fails); with an empty framebuffer no process is created
\* or killed and nothing of the connection changes.
C13_SetParameterRestartsIffImage ==
    [][set_parameter =>
        /\ \E name \in ParamKeys : \E value \in ParamValues(name) :
               Stored(m_scene, m_scene', name, value)
        /\ ~Raster_empty(m_image) =>
               /\ (m_child > 0 => m_child \notin alive')
               /\ \/ forks' = forks + 1 /\ m_child' = forks' /\ alive' = {forks'}
                  \/ last_op'[2] \in {"pipe failed", "fork failed"} /\ forks' = forks
        /\ Raster_empty(m_image) =>
               UNCHANGED <<forks, alive, m_child, m_outjson_fd, m_intile_fd,
                           m_outtile_fd, m_intile_notifier, m_tiles, jsonpipe,
                           reqpipe, cmplpipe, r_pc>>]_vars

\* a parameter changed during a render: the second child replaced the first
C13_Witness ==
    /\ last_op = <<"set_parameter", "forked">>
    /\ forks = 2 /\ alive = {2} /\ m_child = 2
    /\ ~Raster_empty(m_image)
    /\ m_scene # Defaults

ProtocolKeys == {"outpipe", "inpipe", "shared_mem"}

\* C14 as stated: once start_render has run to completion the viewer's own
\* scene map holds the three protocol keys.
C14_SceneCarriesProtocolKeys ==
    last_op = <<"start_render", "ok">> => ProtocolKeys \subseteq DOMAIN m_scene

\* C14 as the code has it: the protocol keys are set on a copy of m_scene that
\* is written to the child; m_scene itself never holds any of them, and
\* start_render, its continuation and stop_render leave m_scene as it was.
C14_ProtocolKeysOnlyOnCopy ==
    /\ [](ProtocolKeys \cap DOMAIN m_scene = {})
    /\ [][(start_render \/ start_render_resume \/ stop_render) =>
             m_scene' = m_scene]_vars
    /\ [](\A i \in 1..Len(jsonpipe) :
             /\ ProtocolKeys \subseteq DOMAIN jsonpipe[i]
             /\ \A k \in DOMAIN m_scene : jsonpipe[i][k] = m_scene[k])

\* a render is running: the child has loaded a scene object carrying the
\* protocol keys while m_scene has none of them
C14_Witness ==
    /\ last_op = <<"start_render", "ok">>
    /\ RenderActive
    /\ ProtocolKeys \subseteq DOMAIN json_scene
    /\ ProtocolKeys \cap DOMAIN m_scene = {}

\* C15: open leaves in m_scene every key of the defaults map; a key of the
\* file keeps the file's value, a key missing from the file takes the default,
\* and a key of the file without a default stays.
C15_OpenFillsDefaults ==
    [][open =>
        \E file \in SceneFiles :
            /\ DOMAIN m_scene' = DOMAIN file \cup DOMAIN Defaults
            /\ \A k \in DOMAIN file : m_scene'[k] = file[k]
            /\ \A k \in DOMAIN Defaults \ DOMAIN file : m_scene'[k] = Defaults[k]]_vars

\* the file with res, tres and a key without default was opened: res keeps the
\* file's value against a different default, samples was defaulted
C15_Witness ==
    /\ last_op = <<"open", "forked">>
    /\ "version" \in DOMAIN m_scene /\ "version" \notin DOMAIN Defaults
    /\ m_scene["res"] = <<1, 1>> /\ Defaults["res"] # <<1, 1>>
    /\ m_scene["samples"] = Defaults["samples"]

\* the second toggle of the sequence: the snapshot is shown and is left
ToggleBack == toggle_snapshot /\ m_snapshot_active /\ snap_hist.step = "shown"

\* C16 as stated: after store_snapshot and two toggles the live framebuffer
\* is displayed and its dirty flag is what it was before the snapshot was
\* shown, raised only if the live framebuffer was written in between.
C16_DirtyOnlyFromArrivals ==
    [][ToggleBack =>
        /\ ~m_snapshot_active'
        /\ m_image_dirty' = (snap_hist.dirty0 \/ snap_hist.arrived)]_vars

\* C16 as the code has it: with a stored snapshot the second toggle returns
\* to the live framebuffer and itself sets the live dirty flag, written or
\* not in between; the first toggle sets only the snapshot's flag; without a
\* stored snapshot a toggle changes nothing and the live framebuffer stays
\* displayed.
C16_ReturnSetsLiveDirty ==
    [][toggle_snapshot =>
        /\ ToggleBack => (~m_snapshot_active' /\ m_image_dirty')
        /\ (~Raster_empty(m_snapshot) /\ ~m_snapshot_active) =>
              (m_snapshot_active' /\ m_snapshot_dirty' /\ m_image_dirty' = m_image_dirty)
        /\ Raster_empty(m_snapshot) =>
              (~m_snapshot_active /\
               UNCHANGED <<m_snapshot_active, m_snapshot_dirty, m_image_dirty>>)
        /\ UNCHANGED <<m_image, m_snapshot>>]_vars

\* back on the live framebuffer after store and two toggles: the live flag
\* was clear before, nothing was written while the snapshot was shown, and
\* the flag is set
C16_Witness ==
    /\ last_op = <<"toggle_snapshot", "live">>
    /\ snap_hist = [step |-> "back", dirty0 |-> FALSE, arrived |-> FALSE]
    /\ ~m_snapshot_active
    /\ m_image_dirty

\* C17: after a programmatic setValue on a widget of any kind no
\* PARAMETER::valueChanged was delivered during the call, whether or not the
\* call changed the widget's value, and no object of the widget is left with
\* its signals blocked.
C17_SetValueSilent ==
    p_last.op = "setValue" =>
        /\ p_emitted = 0
        /\ \A o \in DOMAIN p_blocked : ~p_blocked[o]

\* a setValue that changed the value of a float parameter to one the slider
\* cannot represent exactly
C17_Witness ==
    /\ p_last = [kind |-> "float", op |-> "setValue", changed |-> TRUE]
    /\ p_value["sb"] = FloatStep
    /\ p_value["sl"] # 0 /\ FromSlider("float", p_value["sl"]) # p_value["sb"]
    /\ p_emitted = 0

\* render() has returned a non-zero value and the process has not ended
RenderFailed == RendAlive /\ rval # 0

\* C18: a non-zero return of render() is fatal for the CLI loop: no further
\* render is started, and the process ends, with that value as exit code.
C18_FailedRenderExits ==
    /\ [][rval # 0 => r_pc' \notin {"render", "write_res", "workers"}]_vars
    /\ [][r_pc' = "exited" /\ r_pc # "exited" => rval' # 0 /\ rval' = rval]_vars
    /\ (RenderFailed ~> r_pc = "exited")

\* the part of C18 that holds: after a failed render no further render starts
\* and the process ends only with the value render() returned
C18_NoRenderAfterFailure ==
    [][/\ rval # 0 => r_pc' \notin {"render", "write_res", "workers"}
       /\ r_pc' = "exited" /\ r_pc # "exited" => rval' # 0 /\ rval' = rval]_vars

\* the failed renderer waits in scene.update for input that does not come
C18_BlockedInUpdate == RenderFailed /\ r_pc = "update" /\ jsonpipe = << >>

\* every (tile, sample) request of the image has been served by this render
FullImageServed ==
    r_res.tres > 0 /\ tcomplete = tile_count(r_res) * r_res.nsamples

\* render() has returned 0 and the process is in scene.update
RenderReturned == RendAlive /\ r_pc = "update" /\ rval = 0

AllOffsets == s_offs[1] \cup s_offs[2]

\* C20: the primary-ray sample offset of a (pixel, sample index) pair is the
\* same wherever it is computed: in two renders with the same sampling_seed
\* that differ in tile size and thread count, for any tile, worker slot and
\* order of requests, equal (px, py, sidx) give equal (sx, sy).
C20_OffsetsDependOnPixelAndSample ==
    \A a \in AllOffsets : \A b \in AllOffsets :
        (a.px = b.px /\ a.py = b.py /\ a.sidx = b.sidx) =>
            (a.sx = b.sx /\ a.sy = b.sy)

\* the two renders computed the offset of one pixel and sample from tiles of
\* different size and origin, in different worker slots
C20_Witness ==
    /\ s_res[1].tres # s_res[2].tres
    /\ s_tile[1].tid # s_tile[2].tid
    /\ s_tile[1].xoff # s_tile[2].xoff
    /\ s_tile[1].sidx > 0
    /\ \E a \in s_offs[1] : \E b \in s_offs[2] :
           a.px = b.px /\ a.py = b.py /\ a.sidx = b.sidx /\ a.px > 0

\* a mis_sample call has returned
Shaded == mis_out # << >>

\* a fraction's value is a number in (0, 1]
InUnit(f) == f.den > 0 /\ 0 < f.num /\ f.num <= f.den

\* the sum of two fractions is a number in (0, 1]
SumInUnit(f, g) ==
    /\ f.den > 0 /\ g.den > 0
    /\ 0 < f.num * g.den + g.num * f.den
    /\ f.num * g.den + g.num * f.den <= f.den * g.den

\* a strategy whose own pdf is 0 computes no weight and contributes exactly 0
ZeroPdfContributesZero(own, strategy) ==
    own = 0 => ~strategy.computed /\ strategy.scale = [num |-> 0, den |-> 1]

\* C21 (as stated): with both own pdfs strictly positive the two
\* power-heuristic weights satisfy 0 < wb + wl <= 1; a strategy whose own pdf
\* is 0 computes no weight and contributes exactly 0.
C21_WeightSumInUnit ==
    Shaded =>
        /\ (MisGuard(mis_out.b_pdf) /\ MisGuard(mis_out.l_pdf)
                => SumInUnit(mis_out.b.scale, mis_out.l.scale))
        /\ ZeroPdfContributesZero(mis_out.b_pdf, mis_out.b)
        /\ ZeroPdfContributesZero(mis_out.l_pdf, mis_out.l)

\* C21 (amended): with both own pdfs strictly positive each of the two
\* power-heuristic weights lies in (0, 1], so that 0 < wb + wl <= 2; a
\* strategy whose own pdf is 0 computes no weight and contributes exactly 0.
C21_EachWeightInUnit ==
    Shaded =>
        /\ (MisGuard(mis_out.b_pdf) /\ MisGuard(mis_out.l_pdf)
                => InUnit(mis_out.b.scale) /\ InUnit(mis_out.l.scale))
        /\ ZeroPdfContributesZero(mis_out.b_pdf, mis_out.b)
        /\ ZeroPdfContributesZero(mis_out.l_pdf, mis_out.l)

\* a pair with both pdfs positive, both weights below 1 and a sum above 1
C21_Witness ==
    /\ Shaded
    /\ mis_out.b_pdf > 0 /\ mis_out.lb_pdf > 0 /\ mis_out.bl_pdf > 0
    /\ mis_out.b.computed /\ mis_out.l.computed
    /\ InUnit(mis_out.b.scale) /\ InUnit(mis_out.l.scale)
    /\ ~SumInUnit(mis_out.b.scale, mis_out.l.scale)

\* the recursion of construct is in progress
Constructing == t_pc = "construct"

\* build() has returned
Built == t_pc \in {"built", "geometry"}

\* the polylines of the tree
Curves == {n \in 1..Len(t_nodes) : t_nodes[n].kind = "curve"}

\* the bound on the calls is never what stops a call of construct
CallBoundIdle ==
    Constructing /\ t_stack # << >> /\ Head(t_stack).op = "construct"
        => t_calls < CallBound(t_in)

\* the tree of levels = 0: m_root holds one polyline of two vertices with one
\* leaf marker, made by a single call
SingleTrunk ==
    /\ t_calls = 1
    /\ t_nodes = <<[GROUP_NODE0 EXCEPT !.m_nodes = <<2>>],
                   [POLY_CURVE0 EXCEPT !.m_pos_r = <<"joint", "tip">>, !.m_leaf_set = 1]>>

GeometryBuilt == t_pc = "geometry"

\* the number of terminal twigs of a polyline
RECURSIVE Tips(_, _)
Tips(pos_r, i) ==
    IF i > Len(pos_r) THEN 0
    ELSE (IF pos_r[i] = "tip" THEN 1 ELSE 0) + Tips(pos_r, i + 1)

RECURSIVE TotalVertices(_)
TotalVertices(curves) ==
    IF curves = {} THEN 0
    ELSE LET c == CHOOSE x \in curves : TRUE
         IN  Len(t_nodes[c].m_pos_r) + TotalVertices(curves \ {c})

\* C29: for every tree built by TREE::construct each polyline has at least
\* two vertices and ends in exactly one terminal twig, so the leaf discs
\* emitted equal the polylines, the curve segments emitted equal the total
\* vertices minus the polylines, and the three assertions of
\* TREE::embree_geometry hold.
C29_GeometryCountsAgree ==
    GeometryBuilt =>
        /\ \A c \in Curves :
              LET pos_r == t_nodes[c].m_pos_r
              IN  /\ Len(pos_r) >= 2
                  /\ pos_r[Len(pos_r)] = "tip" /\ Tips(pos_r, 1) = 1
                  /\ t_nodes[c].m_leaf_set = 1
        /\ t_geom.idx = Cardinality(Curves)
        /\ t_geom.iidx = TotalVertices(Curves) - Cardinality(Curves)
        /\ t_geom.in_bounds
        \* assert(vidx == point_count), assert(iidx == point_count - curve_count),
        \* assert(idx == curve_count)
        /\ t_geom.vidx = t_geom.point_count
        /\ t_geom.iidx = t_geom.point_count - t_geom.curve_count
        /\ t_geom.idx = t_geom.curve_count

\* the geometry of a tree with a trunk of several segments and side branches
C29_Witness ==
    /\ GeometryBuilt
    /\ t_geom.curve_count >= 3
    /\ \E c \in Curves : Len(t_nodes[c].m_pos_r) >= 4

\* ------------------------------------------------------------------- C23
\* a worker task is inside render_tile, where the integrator looks shaders up
Shading == r_pc = "workers" /\ \E w \in Workers : w_pc[w] \in {"load", "store"}

\* the reflectance model create_shaders builds under a name of its list; an
\* entry that is no such name is a reflectance model itself
NamedShader(entry) ==
    LET tabs == create_shaders
    IN  IF \E i \in 1..Len(tabs.shader_names) : tabs.shader_names[i] = entry
        THEN tabs.shaders[find_shader(tabs.shader_names, entry) + 1]
        ELSE entry

\* every geometry of a scene that has a shader has a recorded index, the index
\* is one of the shader table and the shader there is the one bound at build
IndicesValid(table, geoms) ==
    \A id \in 1..Len(geoms) :
        geoms[id].kind # "instance" =>
            /\ id <= Len(table)
            /\ table[id] >= 0 /\ table[id] < Len(shaders)
            /\ shaders[table[id] + 1] = NamedShader(geoms[id].bound)

UpdateStep == r_pc = "update" /\ r_pc' # "update"

\* the edits that update() call reads
Edits == Head(jsonpipe)

\* C24: an update() call leaves every edited key in the live scene map with
\* its edited value and every other key as it was; it discards the built
\* geometry (no scene, both shader-index tables empty) exactly when an edited
\* key is a published name of the terrain, tree or forest generator, leaves
\* scene and tables untouched otherwise, and never builds a scene
C24_UpdateDiscardsIffPublished ==
    [][UpdateStep =>
        /\ \A k \in DOMAIN Edits : json_scene'[k] = Edits[k]
        /\ \A k \in (DOMAIN json_scene) \ DOMAIN Edits : json_scene'[k] = json_scene[k]
        /\ DOMAIN json_scene' = (DOMAIN json_scene) \cup DOMAIN Edits
        /\ (DOMAIN Edits) \cap GeometryAffecting # {} =>
            /\ rtc_scene' = SCENE0
            /\ shader_index' = << >> /\ inst_shader_index' = << >>
        /\ (DOMAIN Edits) \cap GeometryAffecting = {} =>
            UNCHANGED <<rtc_scene, shader_index, inst_shader_index>>
        /\ rtc_scene'.live => rtc_scene.live
        /\ UNCHANGED <<shaders, shader_names>>]_vars

\* an update without a published name has just left a built forest alone
C24_Witness ==
    /\ r_pc = "render" /\ renders >= 1
    /\ rtc_scene.live /\ rtc_scene.inst # << >>
    /\ "sun_elevation" \in DOMAIN json_scene
    /\ "enable_water" \notin DOMAIN json_scene

\* ------------------------------------------------------------------- C25
\* the step is the part of render() from the resolution record to the workers
RenderStep == r_pc = "write_res" /\ r_pc' = "workers"

\* the steps of the last render() contain a call of create_geometry
Rebuilt(log) == \E i \in 1..Len(log) : log[i] = "create_geometry"

\* step a of a log comes before step b, if b is in the log at all
Before(log, a, b) ==
    \A j \in 1..Len(log) : log[j] = b => \E i \in 1..(j - 1) : log[i] = a

\* a worker task has a tile request in hand
RendersTile == r_pc = "workers" /\ \E w \in Workers : w_pc[w] \in {"load", "store", "finalize", "write"}

\* C25: render() builds geometry exactly when there is no acceleration scene
\* on entry and otherwise keeps the scene and both index tables as they are;
\* the resolution record is written before the shader table is rebuilt, the
\* table is rebuilt before geometry is built, and a scene exists whenever a
\* worker renders a tile
C25_RebuildIffNoScene ==
    /\ [][RenderStep =>
            /\ Rebuilt(r_log') <=> ~rtc_scene.live
            /\ rtc_scene.live =>
                UNCHANGED <<rtc_scene, shader_index, inst_shader_index>>
            /\ rtc_scene'.live
            /\ cmplpipe' = Append(cmplpipe, r_res)
            /\ shaders' = create_shaders.shaders
            /\ Before(r_log', "write", "create_shaders")
            /\ Before(r_log', "create_shaders", "create_geometry")
            /\ \E i \in 1..Len(r_log') : r_log'[i] = "create_shaders"]_vars
    /\ [](RendersTile => rtc_scene.live)

\* a worker renders a tile of the second render, on the scene of the first
C25_Witness ==
    /\ RendersTile /\ renders = 2
    /\ rtc_scene.live /\ ~Rebuilt(r_log)

\* ------------------------------------------------------------------- C26
\* the step in which the viewer's init_shm maps the segment
ViewerMaps == m_shm_data # "mapped" /\ m_shm_data' = "mapped"

\* the step in which the renderer writes its resolution record
WritesRecord == r_pc = "write_res" /\ r_pc' = "workers"

\* the step in which the viewer writes tile requests
SendsRequest == sent_log' # sent_log /\ sent_log' # << >>

\* C26: the viewer maps the segment only in a step that has read the
\* resolution record; the renderer writes that record only with the segment
\* sized and mapped to nthreads * tres * tres * 4 bytes; so the segment is
\* never smaller than the size the viewer computes from the record when it
\* maps; and the viewer writes tile requests only with its mapping made
C26_HandshakeOrder ==
    /\ [][ViewerMaps =>
            /\ cmplpipe # << >> /\ m_res' = Head(cmplpipe)
            /\ seg_size >= shm_size(m_res')]_vars
    /\ [][WritesRecord =>
            /\ m_shared_data > 0
            /\ map_len = r_res.nthreads * r_res.tres * r_res.tres * CellBytes
            /\ seg_size = map_len]_vars
    /\ [][SendsRequest => m_shm_data' = "mapped"]_vars

\* the viewer has mapped the segment the renderer sized and has sent requests
C26_Witness ==
    /\ m_shm_data = "mapped" /\ sent_log # << >>
    /\ m_res.nthreads = MaxThreads
    /\ seg_size = shm_size(m_res) /\ seg_size > 0

\* ------------------------------------------------------------------- C27
\* worker task w takes a record off the request channel in this step
ReadsRecord(w) == w_pc[w] = "read" /\ w_pc'[w] # "read"

GridOrder(tile) == tile.yoff * m_res.xres + tile.xoff

\* C28 as stated: all requests of a spatial tile are issued before any
\* request of a spatial tile that follows it in the grid order
C28_TileBeforeNextTile ==
    \A i, j \in 1..Len(sent_log) :
        GridOrder(sent_log[i]) < GridOrder(sent_log[j]) => i < j

\* C28 as the code has it: the requests of a render are issued sample index
\* by sample index, each sample index in grid order: the request for sample
\* s of every spatial tile is issued before any request for sample s + 1
C28_SampleBeforeNextSample ==
    \A i, j \in 1..Len(sent_log) :
        /\ sent_log[i].sidx < sent_log[j].sidx => i < j
        /\ (sent_log[i].sidx = sent_log[j].sidx
            /\ GridOrder(sent_log[i]) < GridOrder(sent_log[j])) => i < j

\* every request of a render of two tiles and two samples has been issued
C28_Witness ==
    /\ m_shm_data = "mapped"
    /\ tile_count(m_res) = 2 /\ m_res.nsamples = 2
    /\ Len(sent_log) = 4

\* ------------------------------------------------------------------- C30
\* the cells of the slot of worker id tid
Slot(tid, res) == (res.tres * res.tres * tid)..(res.tres * res.tres * (tid + 1) - 1)

\* the cells of the mapped segment
Segment(res) == 0..(shm_size(res) \div CellBytes - 1)

\* C30: for every request the viewer issues, the cells the renderer writes
\* for it and the cells the viewer reads for its completion are the same
\* cells, all inside the slot of the request's worker id and inside the
\* segment of nthreads * tres * tres cells
C30_CellsInsideSlot ==
    /\ \A tile \in c_req :
        /\ tile.tid >= 0 /\ tile.tid < c_res.nthreads
        /\ FinalizeCells(tile, c_res) \subseteq Slot(tile.tid, c_res)
    /\ \A i \in 1..Len(c_done) :
        /\ c_done[i].cells # {}
        /\ c_done[i].cells \subseteq Slot(c_done[i].tile.tid, c_res)
        /\ c_done[i].cells \subseteq Segment(c_res)
        /\ CopyCells(c_done[i].tile, c_res) = c_done[i].cells
    /\ c_read = c_written
    /\ c_read \subseteq Segment(c_res)
    /\ Cardinality(Segment(c_res)) = c_res.nthreads * c_res.tres * c_res.tres

\* the viewer has copied a tile clipped to one column of two rows (tile size
\* 2) out of the cells the renderer wrote
C30_Witness ==
    /\ c_res.xres = 1 /\ c_res.yres = 2 /\ c_res.tres = 2
    /\ c_written = {0, 1} /\ c_read = {0, 1}

====
